---- MODULE Spec2Model ----
(***************************************************************************)
(* A model of the A2S query client: the UDP transport (A2SSocket), its     *)
(* fragment reassembly, and the challenge handshake of A2SClient.          *)
(*                                                                         *)
(* One step of the model is one turn of the JavaScript event loop: an      *)
(* event callback (datagram, socket error, timer, send completion, a call  *)
(* by the user) together with every promise continuation it schedules,     *)
(* since microtasks run to completion before the next event is taken.      *)
(***************************************************************************)
EXTENDS Integers, Sequences, FiniteSets, TLC

\* ---------------------------------------------------------------- bounds
MaxQueries == 2
MaxInFlight == 1
MaxRules == 2
MaxWrites == 2

\* ------------------------------------------------------ protocol constants
HEADER_SIMPLE == <<255, 255, 255, 255>>
HEADER_MULTI == <<254, 255, 255, 255>>
A2S_CHALLENGE_RESPONSE == 65
A2S_INFO_RESPONSE == 73
A2S_INFO_RESPONSE_LEGACY == 109
A2S_PLAYER_RESPONSE == 68
A2S_RULES_RESPONSE == 69
DEFAULT_RETRIES == 5

Queries == 1..MaxQueries
Kinds == {"info", "players", "rules"}

\* ------------------------------------------------------------ byte helpers
Min(a, b) == IF a <= b THEN a ELSE b

\* Buffer.subarray(start, end): 0-based, end exclusive, clamped to the length
subarray(buf, start, end) == SubSeq(buf, start + 1, Min(end, Len(buf)))

\* Buffer.writeUInt32LE
writeUInt32LE(v) ==
  << v % 256, (v \div 256) % 256, (v \div 65536) % 256, (v \div 16777216) % 256 >>

\* Buffer.writeUInt16LE
writeUInt16LE(v) == << v % 256, (v \div 256) % 256 >>

\* ------------------------------------------------------------- ByteReader
\* A reader is [buffer, position, littleEndian, encoding]; every read returns
\* [ok, value, reader], ok = FALSE standing for a thrown BufferExhaustedError.
\* encoding is "utf-8", "latin1" or "null", the last for no decoding.
DEFAULT_ENCODING == "utf-8"

ByteReader(buffer, littleEndian, encoding) ==
  [buffer |-> buffer, position |-> 0, littleEndian |-> littleEndian,
   encoding |-> encoding]

Ret(ok, value, reader) == [ok |-> ok, value |-> value, reader |-> reader]

read(r, size) ==
  IF r.position + size > Len(r.buffer)
  THEN Ret(FALSE, <<>>, r)
  ELSE Ret(TRUE, subarray(r.buffer, r.position, r.position + size),
           [r EXCEPT !.position = @ + size])

peek(r) == subarray(r.buffer, r.position, Len(r.buffer))

RECURSIVE Reverse(_)
Reverse(bytes) ==
  IF bytes = <<>> THEN <<>> ELSE Append(Reverse(Tail(bytes)), Head(bytes))

\* a reader that takes every value for little-endian
asRead(d) == d.value

\* `this.littleEndian ? data.readXxxLE(0) : data.readXxxBE(0)`: the bytes
\* read() returned, least significant first
leastFirst(d) == IF d.reader.littleEndian THEN d.value ELSE Reverse(d.value)

\* Buffer.readUInt8 / readInt8 on the byte read() returned
decodeUint8(d) == IF d.ok THEN Ret(TRUE, d.value[1], d.reader) ELSE d

decodeInt8(d) ==
  IF d.ok
  THEN Ret(TRUE, IF d.value[1] >= 128 THEN d.value[1] - 256 ELSE d.value[1],
           d.reader)
  ELSE d

\* Buffer.readUInt16LE / BE, readInt16LE / BE
uint16(b) == b[1] + 256 * b[2]

decodeUint16(d) == IF d.ok THEN Ret(TRUE, uint16(leastFirst(d)), d.reader) ELSE d

decodeInt16(d) ==
  IF d.ok
  THEN Ret(TRUE, IF uint16(leastFirst(d)) >= 32768
                 THEN uint16(leastFirst(d)) - 65536
                 ELSE uint16(leastFirst(d)), d.reader)
  ELSE d

\* TLC's integers are 32 bits wide: an unsigned 32-bit value v >= 2^31 is held
\* as v - 2^32, the integer with the same bit pattern, which % 256 and \div
\* turn into the same bytes and bits as v
word32(b) ==
  b[1] + 256 * b[2] + 65536 * b[3]
  + 16777216 * (IF b[4] >= 128 THEN b[4] - 256 ELSE b[4])

decodeWord32(d) == IF d.ok THEN Ret(TRUE, word32(leastFirst(d)), d.reader) ELSE d

readInt8(r) == decodeInt8(read(r, 1))

readUint8(r) == decodeUint8(read(r, 1))

readInt16(r) == decodeInt16(read(r, 2))

readUint16(r) == decodeUint16(read(r, 2))

readUint32(r) == decodeWord32(read(r, 4))

\* readBool: this.readInt8() !== 0
decodeBool(d) == IF d.ok THEN Ret(TRUE, d.value # 0, d.reader) ELSE d

readBool(r) == decodeBool(readInt8(r))

\* Buffer.prototype.toString('utf8'): the UTF-8 decoder, which replaces every
\* maximal ill-formed part by U+FFFD. A text is held as its code points.
Utf8Start == [cp |-> 0, seen |-> 0, needed |-> 0, lower |-> 128, upper |-> 191]

RECURSIVE utf8From(_, _, _, _)
\* a byte met with no sequence open
utf8Lead(bytes, i, b, out) ==
  IF b <= 127 THEN utf8From(bytes, i + 1, Utf8Start, Append(out, b))
  ELSE IF b >= 194 /\ b <= 223
  THEN utf8From(bytes, i + 1,
                [Utf8Start EXCEPT !.needed = 1, !.cp = b % 32], out)
  ELSE IF b >= 224 /\ b <= 239
  THEN utf8From(bytes, i + 1,
                [Utf8Start EXCEPT !.needed = 2, !.cp = b % 16,
                                  !.lower = IF b = 224 THEN 160 ELSE 128,
                                  !.upper = IF b = 237 THEN 159 ELSE 191], out)
  ELSE IF b >= 240 /\ b <= 244
  THEN utf8From(bytes, i + 1,
                [Utf8Start EXCEPT !.needed = 3, !.cp = b % 8,
                                  !.lower = IF b = 240 THEN 144 ELSE 128,
                                  !.upper = IF b = 244 THEN 143 ELSE 191], out)
  ELSE utf8From(bytes, i + 1, Utf8Start, Append(out, 65533))

utf8From(bytes, i, st, out) ==
  IF i > Len(bytes)
  THEN IF st.needed # 0 THEN Append(out, 65533) ELSE out
  ELSE IF st.needed = 0 THEN utf8Lead(bytes, i, bytes[i], out)
  ELSE IF bytes[i] < st.lower \/ bytes[i] > st.upper
  THEN utf8From(bytes, i, Utf8Start, Append(out, 65533))
  ELSE IF st.seen + 1 = st.needed
  THEN utf8From(bytes, i + 1, Utf8Start,
                Append(out, st.cp * 64 + (bytes[i] % 64)))
  ELSE utf8From(bytes, i + 1,
                [st EXCEPT !.cp = @ * 64 + (bytes[i] % 64), !.seen = @ + 1,
                           !.lower = 128, !.upper = 191], out)

\* Buffer.prototype.toString(encoding); 'latin1' takes each byte for the
\* code point of the same number
toString(bytes, encoding) ==
  IF encoding = "latin1" THEN bytes ELSE utf8From(bytes, 1, Utf8Start, <<>>)

\* what readChar and readCString return: a string, or the Buffer itself when
\* the encoding is null
decoded(bytes, encoding) ==
  IF encoding # "null"
  THEN [type |-> "string", data |-> toString(bytes, encoding)]
  ELSE [type |-> "Buffer", data |-> bytes]

decodeChar(d) ==
  IF d.ok THEN Ret(TRUE, decoded(d.value, d.reader.encoding), d.reader) ELSE d

readChar(r) == decodeChar(read(r, 1))

RECURSIVE readCStringFrom(_, _)
\* one turn of the do-while loop of readCString, on the byte it read
cstringByte(b, bytes) ==
  IF ~b.ok THEN b
  ELSE IF b.value = 0
  THEN Ret(TRUE, decoded(bytes, b.reader.encoding), b.reader)
  ELSE readCStringFrom(b.reader, Append(bytes, b.value))

readCStringFrom(r, bytes) == cstringByte(readUint8(r), bytes)

readCString(r) == readCStringFrom(r, <<>>)

readInt32(r) == decodeWord32(read(r, 4))

\* a 64-bit value is kept as its four 16-bit limbs, least significant first:
\* the bit pattern, which a signed and an unsigned read have in common
limbs64(b) == [k \in 1..4 |-> b[2 * k - 1] + 256 * b[2 * k]]

decodeUint64(d) == IF d.ok THEN Ret(TRUE, limbs64(leastFirst(d)), d.reader) ELSE d

readInt64(r) == decodeUint64(read(r, 8))

readUint64(r) == decodeUint64(read(r, 8))

\* the IEEE-754 bit pattern is kept, least significant byte first
decodeFloat(d) == IF d.ok THEN Ret(TRUE, leastFirst(d), d.reader) ELSE d

readFloat(r) == decodeFloat(read(r, 4))

readField(r, type) ==
  CASE type = "u8" -> readUint8(r)
    [] type = "i8" -> readInt8(r)
    [] type = "u16" -> readUint16(r)
    [] type = "i16" -> readInt16(r)
    [] type = "u32" -> readUint32(r)
    [] type = "i32" -> readInt32(r)
    [] type = "u64" -> readUint64(r)
    [] type = "i64" -> readInt64(r)
    [] type = "float" -> readFloat(r)
    [] type = "bool" -> readBool(r)
    [] type = "char" -> readChar(r)
    [] type = "skip" -> read(r, 1)
    [] type = "cstring" -> readCString(r)

\* consecutive reads, the first failing one aborting the rest
RECURSIVE readFields(_, _, _)
fieldRead(f, types, acc) ==
  IF ~f.ok THEN Ret(FALSE, acc, f.reader)
  ELSE readFields(f.reader, Tail(types), Append(acc, f.value))

readFields(r, types, acc) ==
  IF types = <<>> THEN Ret(TRUE, acc, r)
  ELSE fieldRead(readField(r, Head(types)), types, acc)

\* a thrown BufferExhaustedError
Thrown == [ok |-> FALSE, value |-> <<>>, error |-> "BufferExhaustedError"]

\* a thrown TypeError: a method called on a value that does not have it
ThrownTypeError == [ok |-> FALSE, value |-> <<>>, error |-> "TypeError"]

\* ------------------------------------------------------------- ByteWriter
\* A writer is [buffers, littleEndian, encoding]. The integer writers are
\* given a value of their width: Buffer.writeXxx throws a RangeError on any
\* other, before anything is appended.
ByteWriter(littleEndian, encoding) ==
  [buffers |-> <<>>, littleEndian |-> littleEndian, encoding |-> encoding]

write(w, data) == [w EXCEPT !.buffers = Append(@, data)]

\* `if (this.littleEndian) buffer.writeXxxLE(value, 0) else buffer.writeXxxBE`:
\* from the bytes least significant first
inOrder(w, bytes) == IF w.littleEndian THEN bytes ELSE Reverse(bytes)

\* Buffer.writeInt8 / writeUInt8: the value in two's complement
writeInt8(w, value) == write(w, <<value % 256>>)

writeUint8(w, value) == write(w, <<value % 256>>)

writeInt16(w, value) == write(w, inOrder(w, writeUInt16LE(value)))

writeUint16(w, value) == write(w, inOrder(w, writeUInt16LE(value)))

writeInt32(w, value) == write(w, inOrder(w, writeUInt32LE(value)))

writeUint32(w, value) == write(w, inOrder(w, writeUInt32LE(value)))

\* Buffer.writeBigUInt64LE on the four 16-bit limbs of the value
writeBigUInt64LE(limbs) ==
  [k \in 1..8 |-> IF k % 2 = 1 THEN limbs[(k + 1) \div 2] % 256
                  ELSE limbs[k \div 2] \div 256]

writeInt64(w, value) == write(w, inOrder(w, writeBigUInt64LE(value)))

writeUint64(w, value) == write(w, inOrder(w, writeBigUInt64LE(value)))

writeBool(w, value) == writeInt8(w, IF value THEN 1 ELSE 0)

\* the UTF-8 bytes of one code point; a lone surrogate is written as U+FFFD
utf8Bytes(c) ==
  IF c < 128 THEN <<c>>
  ELSE IF c < 2048 THEN <<192 + (c \div 64), 128 + (c % 64)>>
  ELSE IF c >= 55296 /\ c <= 57343 THEN <<239, 191, 189>>
  ELSE IF c < 65536
  THEN <<224 + (c \div 4096), 128 + ((c \div 64) % 64), 128 + (c % 64)>>
  ELSE <<240 + (c \div 262144), 128 + ((c \div 4096) % 64),
         128 + ((c \div 64) % 64), 128 + (c % 64)>>

\* Buffer.from(value, encoding); 'latin1' keeps the low byte of each code
\* point, and Buffer.from(value) is UTF-8
RECURSIVE bufferFrom(_, _)
bufferFrom(chars, encoding) ==
  IF chars = <<>> THEN <<>>
  ELSE (IF encoding = "latin1" THEN <<Head(chars) % 256>>
        ELSE utf8Bytes(Head(chars)))
       \o bufferFrom(Tail(chars), encoding)

\* Buffer.from(value) without an encoding is UTF-8
writeChar(w, value) == write(w, bufferFrom(value.data, w.encoding))

writeCString(w, value) ==
  writeUint8(write(w, IF value.type = "string"
                      THEN bufferFrom(value.data, w.encoding)
                      ELSE value.data), 0)

RECURSIVE concat(_)
\* Buffer.concat
concat(buffers) ==
  IF buffers = <<>> THEN <<>> ELSE Head(buffers) \o concat(Tail(buffers))

toBuffer(w) == concat(w.buffers)

\* one call of a writer method, by the name of the reader method for it
writeField(w, type, value) ==
  CASE type = "u8" -> writeUint8(w, value)
    [] type = "i8" -> writeInt8(w, value)
    [] type = "u16" -> writeUint16(w, value)
    [] type = "i16" -> writeInt16(w, value)
    [] type = "u32" -> writeUint32(w, value)
    [] type = "i32" -> writeInt32(w, value)
    [] type = "u64" -> writeUint64(w, value)
    [] type = "i64" -> writeInt64(w, value)
    [] type = "bool" -> writeBool(w, value)
    [] type = "char" -> writeChar(w, value)
    [] type = "cstring" -> writeCString(w, value)

RECURSIVE writeFields(_, _, _)
writeFields(w, types, values) ==
  IF types = <<>> THEN w
  ELSE writeFields(writeField(w, Head(types), Head(values)),
                   Tail(types), Tail(values))

\* ---------------------------------------------------------- Fragment codec
\* zlib.inflateSync on the bytes a fragment carries: the streams the model
\* delivers are listed with what they inflate to; anything else throws.
DeflatedRules == <<120, 156, 115, 101, 96, 0, 0, 0, 210, 0, 70>>

inflateSync(data) ==
  IF data = DeflatedRules
  THEN [ok |-> TRUE, value |-> <<69, 0, 0>>]
  ELSE [ok |-> FALSE, value |-> <<>>]

\* A2SFragment.isCompressed: messageId & (1 << 15)
isCompressed(messageId) == (messageId \div 32768) % 2 = 1

A2SFragment(messageId, fragmentCount, fragmentId, mtu, decompressedSize, crc, payload) ==
  [messageId |-> messageId, fragmentCount |-> fragmentCount,
   fragmentId |-> fragmentId, mtu |-> mtu,
   decompressedSize |-> decompressedSize, crc |-> crc, payload |-> payload]

\* a catch block that leaves the payload the constructor gave: no bytes
payloadOrNone(compressedData, inflated) ==
  IF inflated.ok THEN inflated.value ELSE <<>>

\* zlib.inflateSync in its try block, the raw bytes in its catch
payloadOf(compressedData, inflated) ==
  IF inflated.ok THEN inflated.value ELSE compressedData

compressedFragment(h, c) ==
  IF ~c.ok THEN Thrown
  ELSE [ok |-> TRUE,
        value |-> A2SFragment(h.value[1], h.value[2], h.value[3], h.value[4],
                              c.value[1], c.value[2],
                              payloadOf(peek(c.reader),
                                        inflateSync(peek(c.reader))))]

fragmentOf(h) ==
  IF ~h.ok THEN Thrown
  ELSE IF isCompressed(h.value[1])
  THEN compressedFragment(h, readFields(h.reader, <<"u32", "u32">>, <<>>))
  ELSE [ok |-> TRUE,
        value |-> A2SFragment(h.value[1], h.value[2], h.value[3], h.value[4],
                              0, 0, peek(h.reader))]

\* [ok, value]; ok = FALSE when a header read throws BufferExhaustedError
decodeFragment(data) ==
  fragmentOf(readFields(ByteReader(data, TRUE, "utf-8"), <<"u32", "u8", "u8", "u16">>, <<>>))

\* Array.prototype.sort((a, b) => a.fragmentId - b.fragmentId): stable
RECURSIVE insertByFragmentId(_, _)
insertByFragmentId(sorted, f) ==
  IF sorted = <<>> THEN <<f>>
  ELSE IF sorted[Len(sorted)].fragmentId <= f.fragmentId THEN Append(sorted, f)
  ELSE Append(insertByFragmentId(SubSeq(sorted, 1, Len(sorted) - 1), f),
              sorted[Len(sorted)])

RECURSIVE sortFromTo(_, _, _)
sortFromTo(frags, k, acc) ==
  IF k > Len(frags) THEN acc
  ELSE sortFromTo(frags, k + 1, insertByFragmentId(acc, frags[k]))

\* no sort: the fragments stay in arrival order
sortInArrivalOrder(frags) == frags

sortByFragmentId(frags) == sortFromTo(frags, 1, <<>>)

\* Buffer.concat(frags.map(f => f.payload))
RECURSIVE concatPayloads(_)
concatPayloads(frags) ==
  IF frags = <<>> THEN <<>>
  ELSE frags[1].payload \o concatPayloads(Tail(frags))

\* the concatenation emitted as it is
keepSimpleHeader(reassembled) == reassembled

\* handleMultiPacket lines 87-89
stripSimpleHeader(reassembled) ==
  IF subarray(reassembled, 0, 4) = HEADER_SIMPLE
  THEN subarray(reassembled, 4, Len(reassembled))
  ELSE reassembled

\* handleMultiPacket lines 81-89: what is emitted once the count is reached
reassemble(frags) == stripSimpleHeader(concatPayloads(sortByFragmentId(frags)))

\* ------------------------------------------------------------ Query codecs
\* String.prototype.toLowerCase on the text readChar returned: the code
\* points up to U+00FF that have a lower-case form, and U+FFFD, which has none
lowerCodePoint(c) ==
  IF (c >= 65 /\ c <= 90) \/ (c >= 192 /\ c <= 222 /\ c # 215)
  THEN c + 32 ELSE c

toLowerCase(ch) ==
  [ch EXCEPT !.data = [k \in 1..Len(ch.data) |-> lowerCodePoint(ch.data[k])]]

bitSet(flags, bit) == (flags \div bit) % 2 = 1

validateResponseType(kind, responseType) ==
  CASE kind = "info" -> responseType = A2S_INFO_RESPONSE
                        \/ responseType = A2S_INFO_RESPONSE_LEGACY
    [] kind = "players" -> responseType = A2S_PLAYER_RESPONSE
    [] kind = "rules" -> responseType = A2S_RULES_RESPONSE

\* "Source Engine Query\0"
SourceEngineQuery ==
  <<83, 111, 117, 114, 99, 101, 32, 69, 110, 103, 105, 110, 101, 32,
    81, 117, 101, 114, 121, 0>>

\* an info request that carries its challenge whatever its value
serializeRequestAlways(kind, challenge) ==
  CASE kind = "info" -> <<84>> \o SourceEngineQuery \o writeUInt32LE(challenge)
    [] kind = "players" -> <<85>> \o writeUInt32LE(challenge)
    [] kind = "rules" -> <<86>> \o writeUInt32LE(challenge)

serializeRequest(kind, challenge) ==
  CASE kind = "info" ->
         IF challenge # 0
         THEN <<84>> \o SourceEngineQuery \o writeUInt32LE(challenge)
         ELSE <<84>> \o SourceEngineQuery
    [] kind = "players" -> <<85>> \o writeUInt32LE(challenge)
    [] kind = "rules" -> <<86>> \o writeUInt32LE(challenge)

SourceLayout ==
  <<"u8", "cstring", "cstring", "cstring", "cstring", "u16", "u8", "u8", "u8",
    "char", "char", "bool", "bool", "cstring">>

\* the optional tail read in the order of the bits, highest first
edfLayoutByBit(edf) ==
  (IF bitSet(edf, 128) THEN <<"u16">> ELSE <<>>)
  \o (IF bitSet(edf, 64) THEN <<"u16", "cstring">> ELSE <<>>)
  \o (IF bitSet(edf, 32) THEN <<"cstring">> ELSE <<>>)
  \o (IF bitSet(edf, 16) THEN <<"u64">> ELSE <<>>)
  \o (IF bitSet(edf, 1) THEN <<"u64">> ELSE <<>>)

\* the optional tail of parseSource, in the order the flags are tested
edfLayout(edf) ==
  (IF bitSet(edf, 128) THEN <<"u16">> ELSE <<>>)
  \o (IF bitSet(edf, 16) THEN <<"u64">> ELSE <<>>)
  \o (IF bitSet(edf, 64) THEN <<"u16", "cstring">> ELSE <<>>)
  \o (IF bitSet(edf, 32) THEN <<"cstring">> ELSE <<>>)
  \o (IF bitSet(edf, 1) THEN <<"u64">> ELSE <<>>)

edfNames(edf) ==
  (IF bitSet(edf, 128) THEN <<"port">> ELSE <<>>)
  \o (IF bitSet(edf, 16) THEN <<"steamId">> ELSE <<>>)
  \o (IF bitSet(edf, 64) THEN <<"stvPort", "stvName">> ELSE <<>>)
  \o (IF bitSet(edf, 32) THEN <<"keywords">> ELSE <<>>)
  \o (IF bitSet(edf, 1) THEN <<"gameId">> ELSE <<>>)

normalizePlatform(lowered) ==
  IF lowered.data = <<111>> THEN [lowered EXCEPT !.data = <<109>>] ELSE lowered

SourceInfo(v, edf, opt) ==
  IF ~opt.ok THEN Thrown
  ELSE [ok |-> TRUE,
        value |-> [protocol |-> v[1], serverName |-> v[2], mapName |-> v[3],
                   folder |-> v[4], game |-> v[5], appId |-> v[6],
                   playerCount |-> v[7], maxPlayers |-> v[8],
                   botCount |-> v[9], serverType |-> toLowerCase(v[10]),
                   platform |-> normalizePlatform(toLowerCase(v[11])),
                   passwordProtected |-> v[12], vacEnabled |-> v[13],
                   version |-> v[14], edf |-> edf,
                   optional |-> [k \in 1..Len(opt.value) |->
                                  <<edfNames(edf)[k], opt.value[k]>>]],
        position |-> opt.reader.position]

\* the try / catch around the read of the flags byte
edfOf(e) == IF e.ok THEN e.value ELSE 0

\* a read of the flags byte with no try / catch around it
sourceTailStrict(base, e) ==
  IF ~e.ok THEN Thrown
  ELSE SourceInfo(base.value, e.value,
                  readFields(e.reader, edfLayout(e.value), <<>>))

sourceTail(base, e) ==
  SourceInfo(base.value, edfOf(e),
             readFields(e.reader, edfLayout(edfOf(e)), <<>>))

\* line 74, `(reader.readChar() as string).toLowerCase()`: the tenth value
\* read is the server type, and a Buffer has no toLowerCase
lowerCaseThrows(values) == Len(values) >= 10 /\ values[10].type = "Buffer"

sourceFlags(base) ==
  IF lowerCaseThrows(base.value) THEN ThrownTypeError
  ELSE IF ~base.ok THEN Thrown
  ELSE sourceTail(base, readUint8(base.reader))

parseSource(reader) == sourceFlags(readFields(reader, SourceLayout, <<>>))

GoldSrcLayout ==
  <<"cstring", "cstring", "cstring", "cstring", "cstring", "u8", "u8", "u8",
    "char", "char", "bool", "bool">>

ModLayout == <<"cstring", "cstring", "skip", "u32", "u32", "bool", "bool">>

GoldSrcInfo(v, mod, last) ==
  IF ~last.ok THEN Thrown
  ELSE [ok |-> TRUE,
        value |-> [address |-> v[1], serverName |-> v[2], mapName |-> v[3],
                   folder |-> v[4], game |-> v[5], playerCount |-> v[6],
                   maxPlayers |-> v[7], protocol |-> v[8],
                   serverType |-> v[9], platform |-> v[10],
                   passwordProtected |-> v[11], isMod |-> v[12],
                   mod |-> mod.value, vacEnabled |-> last.value[1],
                   botCount |-> last.value[2]],
        position |-> last.reader.position]

goldSrcTail(base, mod) ==
  IF ~mod.ok THEN Thrown
  ELSE GoldSrcInfo(base.value, mod,
                   readFields(mod.reader, <<"bool", "u8">>, <<>>))

\* a mod block read whenever is-modified is set
goldSrcModAlways(base) ==
  IF ~base.ok THEN Thrown
  ELSE IF base.value[12]
  THEN goldSrcTail(base, readFields(base.reader, ModLayout, <<>>))
  ELSE goldSrcTail(base, Ret(TRUE, <<>>, base.reader))

goldSrcMod(base) ==
  IF ~base.ok THEN Thrown
  ELSE IF base.value[12] /\ Len(peek(base.reader)) > 2
  THEN goldSrcTail(base, readFields(base.reader, ModLayout, <<>>))
  ELSE goldSrcTail(base, Ret(TRUE, <<>>, base.reader))

parseGoldSrc(reader) == goldSrcMod(readFields(reader, GoldSrcLayout, <<>>))

RECURSIVE readPlayers(_, _, _)
playerRead(p, n, acc) ==
  IF ~p.ok THEN Thrown
  ELSE readPlayers(p.reader, n - 1,
         Append(acc, [index |-> p.value[1], name |-> p.value[2],
                      score |-> p.value[3], duration |-> p.value[4]]))

readPlayers(r, n, acc) ==
  IF n = 0 THEN [ok |-> TRUE, value |-> acc, position |-> r.position]
  ELSE playerRead(readFields(r, <<"u8", "cstring", "i32", "float">>, <<>>),
                  n, acc)

RECURSIVE readRules(_, _, _)
\* a property key is a string: a Buffer used as one is turned into its
\* toString(), the UTF-8 decoding of its bytes
propertyKey(key) ==
  IF key.type = "string" THEN key.data ELSE toString(key.data, "utf-8")

\* "__proto__"
ProtoKey == <<95, 95, 112, 114, 111, 116, 111, 95, 95>>

\* rules[key] = value on the object literal {}: for the key __proto__ this
\* calls the setter inherited from Object.prototype, which adds no property
\* (it ignores a string and makes a Buffer the prototype)
setProperty(rules, key, value) ==
  IF key = ProtoKey THEN rules
  ELSE [k \in DOMAIN rules \cup {key} |-> IF k = key THEN value ELSE rules[k]]

ruleRead(p, n, rules) ==
  IF ~p.ok THEN Thrown
  ELSE readRules(p.reader, n - 1,
                 setProperty(rules, propertyKey(p.value[1]), p.value[2]))

readRules(r, n, rules) ==
  IF n = 0 THEN [ok |-> TRUE, value |-> rules, position |-> r.position]
  ELSE ruleRead(readFields(r, <<"cstring", "cstring">>, <<>>), n, rules)

playersOf(c) == IF ~c.ok THEN Thrown ELSE readPlayers(c.reader, c.value, <<>>)

rulesOf(c) == IF ~c.ok THEN Thrown ELSE readRules(c.reader, c.value, <<>>)

\* [ok, value, position], the position being the one of the reader after
\* the parse; ok = FALSE when the parse throws
deserializeResponse(kind, reader, responseType) ==
  CASE kind = "info" ->
         IF responseType = A2S_INFO_RESPONSE THEN parseSource(reader)
         ELSE parseGoldSrc(reader)
    [] kind = "players" -> playersOf(readUint8(reader))
    [] kind = "rules" -> rulesOf(readUint16(reader))

\* ------------------------------------------------------------------ state
VARIABLES
  ready,            \* A2SSocket.ready has resolved (the 'listening' event)
  closed,           \* A2SSocket.closed
  socketCloses,     \* calls of the dgram socket's close()
  fragmentBuffer,   \* A2SSocket.fragmentBuffer
  dataListeners,    \* 'data' listeners of the A2SSocket, by owning query
  errorListeners,   \* 'error' listeners of the A2SSocket, by owning query
  clientClosed,     \* A2SClient.closed
  query,            \* the calls of info() / players() / rules()
  inflight,         \* socket.send calls whose callback has not run yet:
                    \* cur, the queries whose pending or last request made
                    \* one; stale, how many earlier requests made the others
  thrown,           \* the error the last event callback threw, if any
  assembled,        \* what the last event callback reassembled, if anything
  other,            \* a second A2SClient with its A2SSocket: the same
                    \* fields, as a record
  codec             \* a call of one of the codecs on its own: the operation,
                    \* its input and, once it has run, its output

vars ==
  <<ready, closed, socketCloses, fragmentBuffer, dataListeners, errorListeners,
    clientClosed, query, inflight, thrown, assembled, other, codec>>

Pending == [state |-> "pending", data |-> <<>>, error |-> "none"]
Resolved(data) == [state |-> "resolved", data |-> data, error |-> "none"]
Rejected(error) == [state |-> "rejected", data |-> <<>>, error |-> error]

\* the promise and closure variables of one A2SSocket.request call
NoLeg ==
  [finished |-> FALSE, timer |-> FALSE, sendpc |-> "none",
   outcome |-> Pending, first |-> Pending]

IdleQuery ==
  [status |-> "idle", kind |-> "none", retries |-> 0, challenge |-> 0,
   error |-> "none", result |-> <<>>, closedAtReturn |-> FALSE,
   legs |-> 0, tx |-> 0, chal |-> 0, leg |-> NoLeg,
   payload |-> <<>>]

\* The record of a finished call is reset when the user makes the next call:
\* the caller has its result, and the program keeps nothing of the call but
\* what the A2SSocket.request closure still holds.
archive(rec) ==
  IF rec.status \in {"done", "failed"}
  THEN [IdleQuery EXCEPT
          !.status = "archived",
          !.leg = [NoLeg EXCEPT
                     !.finished = rec.leg.finished,
                     !.timer = rec.leg.timer,
                     !.sendpc = IF rec.leg.sendpc = "waitReady"
                                THEN "waitReady" ELSE "none",
                     !.outcome = [Pending EXCEPT
                                    !.state = rec.leg.outcome.state]]]
  ELSE rec

\* history: the fragments a message was put together from, in arrival order,
\* and the bytes emitted for them
NoAssembly == [from |-> <<>>, data |-> <<>>]

\* the state as one record, so that the calls of a handler compose
Cur ==
  [ready |-> ready, closed |-> closed, socketCloses |-> socketCloses,
   fragmentBuffer |-> fragmentBuffer, dataListeners |-> dataListeners,
   errorListeners |-> errorListeners, clientClosed |-> clientClosed,
   query |-> query, inflight |-> inflight, thrown |-> "none",
   assembled |-> NoAssembly]

fits(s) == Cardinality(s.inflight.cur) + s.inflight.stale <= MaxInFlight

Commit(s) ==
  /\ ready' = s.ready
  /\ closed' = s.closed
  /\ socketCloses' = s.socketCloses
  /\ fragmentBuffer' = s.fragmentBuffer
  /\ dataListeners' = s.dataListeners
  /\ errorListeners' = s.errorListeners
  /\ clientClosed' = s.clientClosed
  /\ query' = s.query
  /\ inflight' = s.inflight
  /\ thrown' = s.thrown
  /\ assembled' = s.assembled
  /\ other' = other
  /\ codec' = codec
  /\ fits(s)

\* new A2SClient(...): the fields after the two constructors
NewClient ==
  [ready |-> FALSE, closed |-> FALSE, socketCloses |-> 0,
   fragmentBuffer |-> <<>>, dataListeners |-> <<>>, errorListeners |-> <<>>,
   clientClosed |-> FALSE, query |-> [q \in Queries |-> IdleQuery],
   inflight |-> [cur |-> {}, stale |-> 0], thrown |-> "none",
   assembled |-> NoAssembly]

\* no codec call is looked at on its own
NoCodec == [op |-> "none", input |-> <<>>, output |-> <<>>, done |-> FALSE]

InitClient ==
  /\ ready = NewClient.ready
  /\ closed = NewClient.closed
  /\ socketCloses = NewClient.socketCloses
  /\ fragmentBuffer = NewClient.fragmentBuffer
  /\ dataListeners = NewClient.dataListeners
  /\ errorListeners = NewClient.errorListeners
  /\ clientClosed = NewClient.clientClosed
  /\ query = NewClient.query
  /\ inflight = NewClient.inflight
  /\ thrown = NewClient.thrown
  /\ assembled = NewClient.assembled
  /\ other = NewClient

Init == InitClient /\ codec = NoCodec

\* ------------------------------------------------------- A2SSocket (part 1)
\* a close that does not look at the closed flag
socketCloseAgain(s) == [s EXCEPT !.closed = TRUE, !.socketCloses = @ + 1]

\* A2SSocket.close
socketClose(s) ==
  IF ~s.closed
  THEN [s EXCEPT !.closed = TRUE, !.socketCloses = @ + 1]
  ELSE s

\* resolve / reject of the promise of A2SSocket.request: the first call wins
settle(s, q, outcome) ==
  IF s.query[q].leg.outcome.state = "pending"
  THEN [s EXCEPT !.query[q].leg.outcome = outcome]
  ELSE s

clearTimeout(s, q) == [s EXCEPT !.query[q].leg.timer = FALSE]

\* a cleanup that removes the 'data' listeners only
safeCleanupDataOnly(s, q) ==
  IF ~s.query[q].leg.finished
  THEN [s EXCEPT !.query[q].leg.finished = TRUE,
                 !.dataListeners = <<>>]
  ELSE s

safeCleanup(s, q) ==
  IF ~s.query[q].leg.finished
  THEN [s EXCEPT !.query[q].leg.finished = TRUE,
                 !.dataListeners = <<>>,
                 !.errorListeners = <<>>]
  ELSE s

\* a timeout callback that cleans up and never rejects
onTimeoutSilent(s, q) ==
  IF ~s.query[q].leg.finished
  THEN safeCleanup(s, q)
  ELSE s

\* a timeout callback that also closes the socket
onTimeoutClosing(s, q) ==
  IF ~s.query[q].leg.finished
  THEN socketClose(settle(safeCleanup(s, q), q, Rejected("Timeout")))
  ELSE s

\* the setTimeout callback of A2SSocket.request
onTimeout(s, q) ==
  IF ~s.query[q].leg.finished
  THEN settle(safeCleanup(s, q), q, Rejected("Timeout"))
  ELSE s

onData(s, q, data) ==
  IF ~s.query[q].leg.finished
  THEN settle(safeCleanup(clearTimeout(s, q), q), q, Resolved(data))
  ELSE s

\* an error listener that cleans up and never rejects
onErrorSilent(s, q, error) ==
  IF ~s.query[q].leg.finished
  THEN safeCleanup(clearTimeout(s, q), q)
  ELSE s

onError(s, q, error) ==
  IF ~s.query[q].leg.finished
  THEN settle(safeCleanup(clearTimeout(s, q), q), q, Rejected(error))
  ELSE s

\* a send that does not look at the closed flag
sendReadyAlways(s, q) ==
  [s EXCEPT !.query[q].leg.sendpc = "sent",
            !.query[q].tx = @ + 1,
            !.inflight.cur = @ \cup {q}]

\* the body of send() after `await this.ready`
sendReady(s, q) ==
  IF s.closed
  THEN [s EXCEPT !.query[q].leg.sendpc = "dropped"]
  ELSE [s EXCEPT !.query[q].leg.sendpc = "sent",
                 !.query[q].tx = @ + 1,
                 !.inflight.cur = @ \cup {q}]

\* A2SSocket.send up to the dgram socket's send
send(s, q) ==
  IF s.ready
  THEN sendReady(s, q)
  ELSE [s EXCEPT !.query[q].leg.sendpc = "waitReady"]

\* A2SSocket.request: the promise executor
socketRequest(s, q) ==
  send([s EXCEPT !.query[q].leg = [NoLeg EXCEPT !.timer = TRUE],
                 !.query[q].legs = @ + 1,
                 !.dataListeners = Append(@, q),
                 !.errorListeners = Append(@, q),
                 !.inflight = IF q \in @.cur
                              THEN [cur |-> @.cur \ {q}, stale |-> @.stale + 1]
                              ELSE @], q)

\* --------------------------------------------------------------- A2SClient
\* a close that sets the flag of the client and leaves the socket open
clientCloseFlagOnly(s) ==
  IF ~s.clientClosed
  THEN [s EXCEPT !.clientClosed = TRUE]
  ELSE s

\* A2SClient.close
clientClose(s) ==
  IF ~s.clientClosed
  THEN [socketClose(s) EXCEPT !.clientClosed = TRUE]
  ELSE s

\* the promise of the query is rejected / fulfilled: what the caller sees
fail(s, q, error) ==
  [s EXCEPT !.query[q].status = "failed",
            !.query[q].error = error,
            !.query[q].closedAtReturn = s.closed]

succeed(s, q, result) ==
  [s EXCEPT !.query[q].status = "done",
            !.query[q].result = result,
            !.query[q].closedAtReturn = s.closed]

\* a request that does not call ensureOpen
clientRequestUnchecked(s, q, challenge, retries) ==
  socketRequest([s EXCEPT !.query[q].challenge = challenge,
                          !.query[q].retries = retries,
                          !.query[q].payload =
                            serializeRequest(s.query[q].kind, challenge)], q)

\* A2SClient.request up to its await
clientRequest(s, q, challenge, retries) ==
  IF s.clientClosed
  THEN fail(s, q, "ClientClosed")
  ELSE socketRequest([s EXCEPT !.query[q].challenge = challenge,
                               !.query[q].retries = retries,
                               !.query[q].payload =
                                 serializeRequest(s.query[q].kind, challenge)],
                     q)

closeIfOutermost(s, retries) == IF retries = 0 THEN clientClose(s) ELSE s

\* a bound that lets one more challenge through
retriesExhaustedLate(retries) == retries > DEFAULT_RETRIES

retriesExhausted(retries) == retries >= DEFAULT_RETRIES

\* lines 293-295: the parsed result, the close of the outermost call
onParsed(s, q, result) ==
  IF ~result.ok THEN fail(s, q, "BufferExhausted")
  ELSE succeed(closeIfOutermost(s, s.query[q].retries), q, result.value)

\* a retry on a new socket: the Transport is closed between the legs
onChallengeClosing(s, q, newChallenge) ==
  IF ~newChallenge.ok THEN fail(s, q, "BufferExhausted")
  ELSE clientRequest(socketClose(s), q, newChallenge.value,
                     s.query[q].retries + 1)

\* a retry that sends the challenge of the leg before
onChallengeStale(s, q, newChallenge) ==
  IF ~newChallenge.ok THEN fail(s, q, "BufferExhausted")
  ELSE clientRequest(s, q, s.query[q].challenge, s.query[q].retries + 1)

\* lines 281-283: the new challenge, the recursive call
onChallenge(s, q, newChallenge) ==
  IF ~newChallenge.ok THEN fail(s, q, "BufferExhausted")
  ELSE clientRequest(s, q, newChallenge.value, s.query[q].retries + 1)

\* lines 273-295, on the response type byte read at line 271
onResponseType(s, q, type) ==
  IF ~type.ok THEN fail(s, q, "BufferExhausted")
  ELSE IF type.value = A2S_CHALLENGE_RESPONSE
  THEN IF retriesExhausted(s.query[q].retries)
       THEN fail(closeIfOutermost(s, s.query[q].retries), q, "ChallengeLimit")
       ELSE onChallenge(s, q, readUint32(type.reader))
  ELSE IF ~validateResponseType(s.query[q].kind, type.value)
  THEN fail(closeIfOutermost(s, s.query[q].retries), q, "InvalidResponseType")
  ELSE onParsed(s, q,
         deserializeResponse(s.query[q].kind, type.reader, type.value))

\* A2SClient.request after its await, on the data the Transport resolved with
onResponse(s, q, responseData) ==
  onResponseType(s, q,
                 readUint8(ByteReader(responseData, TRUE, DEFAULT_ENCODING)))

\* the continuation of `await this.socket.request(...)`
resume(s, q) ==
  IF s.query[q].status # "awaiting"
     \/ s.query[q].leg.outcome.state = "pending" THEN s
  ELSE IF s.query[q].leg.outcome.state = "rejected"
  THEN fail(s, q, s.query[q].leg.outcome.error)
  ELSE onResponse(s, q, s.query[q].leg.outcome.data)

RECURSIVE resumeAll(_, _)
resumeAll(s, qs) ==
  IF qs = <<>> THEN s ELSE resumeAll(resume(s, Head(qs)), Tail(qs))

\* ------------------------------------------------------- A2SSocket (part 2)
\* history: the first event delivered to the pending request of query q
markFirst(s, q, event) ==
  IF s.query[q].leg.first.state = "pending"
  THEN [s EXCEPT !.query[q].leg.first = event]
  ELSE s

\* a challenge response on the wire: 0x41 and the 4 challenge bytes
isChallengeResponse(data) ==
  Len(data) >= 5 /\ data[1] = A2S_CHALLENGE_RESPONSE

\* history: the challenge responses delivered to query q
countChallenge(s, q, data) ==
  IF isChallengeResponse(data) THEN [s EXCEPT !.query[q].chal = @ + 1] ELSE s

\* EventEmitter.emit calls the listeners registered when it was called
RECURSIVE callDataListeners(_, _, _)
callDataListeners(s, qs, data) ==
  IF qs = <<>> THEN s
  ELSE callDataListeners(
         onData(countChallenge(markFirst(s, Head(qs), Resolved(data)),
                               Head(qs), data),
                Head(qs), data),
         Tail(qs), data)

RECURSIVE callErrorListeners(_, _, _)
callErrorListeners(s, qs, error) ==
  IF qs = <<>> THEN s
  ELSE callErrorListeners(
         onError(markFirst(s, Head(qs), Rejected(error)), Head(qs), error),
         Tail(qs), error)

\* this.emit('data', data): the listeners are once-listeners
emitData(s, data) ==
  callDataListeners([s EXCEPT !.dataListeners = <<>>], s.dataListeners, data)

\* this.emit('error', error): without a listener the emitter throws the error
emitError(s, error) ==
  IF s.errorListeners = <<>>
  THEN [s EXCEPT !.thrown = error]
  ELSE callErrorListeners([s EXCEPT !.errorListeners = <<>>],
                          s.errorListeners, error)

countReached(buffer, fragment) == Len(buffer) >= fragment.fragmentCount

\* handleMultiPacket after line 77
onFragment(s, fragment) ==
  IF ~fragment.ok
  THEN [s EXCEPT !.thrown = "BufferExhausted"]
  ELSE IF countReached(Append(s.fragmentBuffer, fragment.value), fragment.value)
  THEN emitData([s EXCEPT !.fragmentBuffer = <<>>,
                          !.assembled =
                            [from |-> Append(s.fragmentBuffer, fragment.value),
                             data |-> reassemble(Append(s.fragmentBuffer,
                                                        fragment.value))]],
                reassemble(Append(s.fragmentBuffer, fragment.value)))
  ELSE [s EXCEPT !.fragmentBuffer = Append(@, fragment.value)]

handleMultiPacket(s, data) == onFragment(s, decodeFragment(data))

\* a classification that takes every header but FE FF FF FF for the simple one
handleMessageLenient(s, packet) ==
  IF Len(packet) < 4
  THEN emitError(s, "PacketTooShort")
  ELSE IF subarray(packet, 0, 4) = HEADER_MULTI
  THEN handleMultiPacket(s, subarray(packet, 4, Len(packet)))
  ELSE emitData(s, subarray(packet, 4, Len(packet)))

handleMessage(s, packet) ==
  IF Len(packet) < 4
  THEN emitError(s, "PacketTooShort")
  ELSE IF subarray(packet, 0, 4) = HEADER_SIMPLE
  THEN emitData(s, subarray(packet, 4, Len(packet)))
  ELSE IF subarray(packet, 0, 4) = HEADER_MULTI
  THEN handleMultiPacket(s, subarray(packet, 4, Len(packet)))
  ELSE emitError(s, "InvalidHeader")

\* the catch block of send (lines 117-120): with no listener left the emit
\* throws, send() rejects and the .catch of request runs (lines 162-165)
sendCaught(s, c) ==
  IF s.errorListeners = <<>>
  THEN IF c \in Queries
       THEN settle(socketClose(s), c, Rejected("SendFailed"))
       ELSE socketClose(s)
  ELSE socketClose(emitError(s, "SendFailed"))

\* a send callback that only emits the error
sendFailedEmitOnly(s, c) ==
  IF s.errorListeners = <<>>
  THEN [s EXCEPT !.thrown = "SendFailed"]
  ELSE emitError(s, "SendFailed")

\* the dgram send callback with an error (lines 108-111): without a listener
\* the emit throws out of the callback
sendFailed(s, c) ==
  IF s.errorListeners = <<>>
  THEN [s EXCEPT !.thrown = "SendFailed"]
  ELSE sendCaught(socketClose(emitError(s, "SendFailed")), c)

\* the callback of send call c has run: c a query, or 0 for an earlier request
called(s, c) ==
  IF c = 0
  THEN [s EXCEPT !.inflight.stale = @ - 1]
  ELSE [s EXCEPT !.inflight.cur = @ \ {c}]

isInflight(c) == IF c = 0 THEN inflight.stale > 0 ELSE c \in inflight.cur

RECURSIVE resumeSends(_, _)
resumeSends(s, q) ==
  IF q > MaxQueries THEN s
  ELSE resumeSends(IF s.query[q].leg.sendpc = "waitReady"
                   THEN sendReady(s, q) ELSE s, q + 1)

\* ------------------------------------------------------------- datagrams
Fragment(messageId, fragmentCount, fragmentId, payload) ==
  HEADER_MULTI \o writeUInt32LE(messageId) \o <<fragmentCount, fragmentId>>
  \o writeUInt16LE(1248) \o payload

ChallengePacket == HEADER_SIMPLE \o <<65, 18, 52, 86, 120>>
TruncatedChallenge == HEADER_SIMPLE \o <<65, 18>>
InfoPacket ==
  HEADER_SIMPLE
  \o <<73, 17, 84, 0, 109, 0, 99, 0, 67, 0, 218, 2, 10, 32, 0, 68, 108, 0, 1,
       49, 0, 0>>
PlayersPacket == HEADER_SIMPLE \o <<68, 0>>
RulesPacket == HEADER_SIMPLE \o <<69, 0, 0>>
BadTypePacket == HEADER_SIMPLE \o <<153, 1>>
EmptyPacket == HEADER_SIMPLE
ShortPacket == <<255, 255, 255>>
BadHeaderPacket == <<253, 255, 255, 255, 73>>
TruncatedFragment == HEADER_MULTI \o <<1, 0, 0, 0, 2>>

\* message 1: a challenge response in two fragments, the first one carrying
\* FF FF FF FF
Fragments ==
  { Fragment(1, 2, 0, HEADER_SIMPLE \o <<65, 18>>),
    Fragment(1, 2, 1, <<52, 86, 120>>) }

Packets ==
  { ChallengePacket, TruncatedChallenge, InfoPacket, PlayersPacket, RulesPacket, BadTypePacket,
    EmptyPacket, ShortPacket, BadHeaderPacket, TruncatedFragment }
  \cup Fragments

\* ---------------------------------------------------------------- actions
\* the dgram socket is bound: 'listening'
\* the handlers as steps of one client, from its fields s to its fields after
onListening(s) == resumeSends([s EXCEPT !.ready = TRUE], 1)

onQuery(s, q, kind) ==
  clientRequest(
    [s EXCEPT !.query = [p \in Queries |->
                           IF p = q
                           THEN [IdleQuery EXCEPT !.status = "awaiting",
                                                  !.kind = kind]
                           ELSE archive(s.query[p])]], q, 0, 0)

onMessage(s, packet) ==
  resumeAll(handleMessage(s, packet), s.dataListeners \o s.errorListeners)

onTimer(s, q) ==
  resumeAll(onTimeout(markFirst([s EXCEPT !.query[q].leg.timer = FALSE], q,
                                Rejected("Timeout")), q),
            <<q>>)

Listening ==
  /\ ~ready
  /\ Commit(onListening(Cur))

\* the user calls client.info(), client.players() or client.rules()
Query(q, kind) ==
  /\ query[q].status = "idle"
  /\ \A p \in Queries : p < q => query[p].status \in {"done", "failed", "archived"}
  /\ Commit(onQuery(Cur, q, kind))

\* the user calls client.close()
Close ==
  /\ Commit(clientClose(Cur))

\* a datagram arrives: the socket's 'message' event
Message(packet) ==
  /\ ready
  /\ ~closed
  /\ Commit(onMessage(Cur, packet))

\* the socket's 'error' event
SocketError ==
  /\ ~closed
  /\ Commit(resumeAll(emitError(Cur, "SocketError"), errorListeners))

\* the timer of the pending request of query q fires
Timeout(q) ==
  /\ query[q].leg.timer
  /\ Commit(onTimer(Cur, q))

\* the dgram send callback runs without an error
SendDone(c) ==
  /\ isInflight(c)
  /\ Commit(called(Cur, c))

\* the dgram send callback runs with an error
SendError(c) ==
  /\ isInflight(c)
  /\ Commit(resumeAll(sendFailed(called(Cur, c), c),
                      errorListeners \o (IF c = 0 THEN <<>> ELSE <<c>>)))

Next ==
  \/ Listening
  \/ \E q \in Queries, kind \in Kinds : Query(q, kind)
  \/ Close
  \/ \E packet \in Packets : Message(packet)
  \/ SocketError
  \/ \E q \in Queries : Timeout(q)
  \/ \E c \in Queries \cup {0} : SendDone(c)
  \/ \E c \in Queries \cup {0} : SendError(c)

Spec == Init /\ [][Next]_vars

\* ------------------------------------------- the assembler under more load
\* message 1: a rules response in three fragments, the first one carrying
\* FF FF FF FF; message 2: a rules response in two
AsmFragments ==
  { Fragment(1, 3, 0, HEADER_SIMPLE \o <<69, 1, 0>>),
    Fragment(1, 3, 1, <<97, 0>>),
    Fragment(1, 3, 2, <<98, 0>>),
    Fragment(2, 2, 0, <<69>>),
    Fragment(2, 2, 1, <<0, 0>>) }

NextAsm ==
  \/ Listening
  \/ Query(1, "rules")
  \/ \E packet \in AsmFragments : Message(packet)
  \/ Timeout(1)
  \/ SendDone(1)

SpecAsm == Init /\ [][NextAsm]_vars

\* ------------------------------------------- calls on one client, at will
\* The caller calls info / players / rules on one client whenever it likes,
\* also while an earlier call is pending, and never calls close.
Call(q, kind) ==
  /\ query[q].status = "idle"
  /\ \A p \in Queries : p < q => query[p].status # "idle"
  /\ Commit(onQuery(Cur, q, kind))

NextCalls ==
  \/ Listening
  \/ \E q \in Queries, kind \in Kinds : Call(q, kind)
  \/ \E packet \in Packets : Message(packet)
  \/ \E q \in Queries : Timeout(q)
  \/ \E c \in Queries \cup {0} : SendDone(c)

SpecCalls == Init /\ [][NextCalls]_vars

\* ---------------------------------------------- one call, every datagram
\* challenge responses carrying 0 and FF FF FF FF
ZeroChallenge == HEADER_SIMPLE \o <<65, 0, 0, 0, 0>>
HighChallenge == HEADER_SIMPLE \o <<65, 255, 255, 255, 255>>

\* a fragment of the compressed message 8001 cut after 12 of its 16 header
\* bytes
TruncatedCompressed ==
  HEADER_MULTI \o <<1, 128, 0, 0, 2, 0, 224, 4, 0, 2, 0, 0>>

RecvPackets ==
  Packets \cup {ZeroChallenge, HighChallenge, TruncatedCompressed}

NextRecv ==
  \/ Listening
  \/ \E kind \in Kinds : Query(1, kind)
  \/ \E packet \in RecvPackets : Message(packet)
  \/ Timeout(1)
  \/ SendDone(1)

SpecRecv == Init /\ [][NextRecv]_vars

\* the same, with the timers of the event loop: a timer that has been set
\* and is not cleared fires (setTimeout, socket.ts:136-141)
SpecRecvTimers == SpecRecv /\ WF_vars(Timeout(1))

\* ----------------------------------------- one call, closed at any time
\* one call, every datagram, the timers, and the caller closing the client
\* whenever it likes
NextClose ==
  \/ NextRecv
  \/ Close

SpecClose == Init /\ [][NextClose]_vars /\ WF_vars(Timeout(1))

\* ------------------------------------- calls in turn, answers told apart
\* The caller makes its calls one after the other on one client and never
\* closes it; the server answers the request of call q with a rules response
\* of one rule named by q ("a", "b", ...), so that the bytes of a response
\* tell which request it answers.
answerTo(q) == <<69, 1, 0, 96 + q, 0, 49, 0>>

AnswerPacket(q) == HEADER_SIMPLE \o answerTo(q)

\* the same response as message q in two fragments
AnswerPart(q, id) ==
  IF id = 0 THEN Fragment(q, 2, 0, SubSeq(answerTo(q), 1, 4))
  ELSE Fragment(q, 2, 1, SubSeq(answerTo(q), 5, 7))

\* the request of call q has left the socket. The record of a call that
\* ended keeps its transmissions until the next call is made (archive);
\* after that, a send that is not waiting for 'listening' has been made,
\* since a call made on a closed client is followed by no datagram at all
Transmitted(q) ==
  \/ query[q].tx >= 1
  \/ query[q].status = "archived" /\ query[q].leg.sendpc = "none"

\* a fragment of the response to call q arrives while its request is pending
Part(q, id) ==
  /\ query[q].status = "awaiting"
  /\ Transmitted(q)
  /\ Message(AnswerPart(q, id))

\* the response to call q arrives in one datagram, in time or late
Answer(q) ==
  /\ Transmitted(q)
  /\ Message(AnswerPacket(q))

NextLate ==
  \/ Listening
  \/ \E q \in Queries : Query(q, "rules")
  \/ \E q \in Queries, id \in {0, 1} : Part(q, id)
  \/ \E q \in Queries : Answer(q)
  \/ \E q \in Queries : Timeout(q)
  \/ \E c \in Queries \cup {0} : SendDone(c)

SpecLate == Init /\ [][NextLate]_vars

\* ------------------------------------------------------------ two clients
\* Two A2SClient objects, each with the A2SSocket and the dgram socket its
\* constructor made, one call on each: players() on the first, rules() on
\* the second. The first one is the variables above, the second one the
\* record `other`.
Fresh(s) == [s EXCEPT !.thrown = "none", !.assembled = NoAssembly]

First ==
  [ready |-> ready, closed |-> closed, socketCloses |-> socketCloses,
   fragmentBuffer |-> fragmentBuffer, dataListeners |-> dataListeners,
   errorListeners |-> errorListeners, clientClosed |-> clientClosed,
   query |-> query, inflight |-> inflight, thrown |-> thrown,
   assembled |-> assembled]

\* a second instance whose fragmentBuffer is the one of the first
SecondSharingBuffer == [other EXCEPT !.fragmentBuffer = fragmentBuffer]

\* the fields of the second instance are its own
Second == other

TwoPackets ==
  { ChallengePacket, PlayersPacket, RulesPacket, ShortPacket,
    Fragment(1, 2, 0, <<68, 0>>) }

PutOther(s) ==
  /\ other' = s
  /\ fits(s)
  /\ UNCHANGED <<ready, closed, socketCloses, fragmentBuffer, dataListeners,
                 errorListeners, clientClosed, query, inflight, thrown,
                 assembled, codec>>

OtherListening ==
  /\ ~Second.ready
  /\ PutOther(onListening(Fresh(Second)))

OtherQuery ==
  /\ Second.query[1].status = "idle"
  /\ PutOther(onQuery(Fresh(Second), 1, "rules"))

OtherMessage(packet) ==
  /\ Second.ready
  /\ ~Second.closed
  /\ PutOther(onMessage(Fresh(Second), packet))

OtherTimeout ==
  /\ Second.query[1].leg.timer
  /\ PutOther(onTimer(Fresh(Second), 1))

OtherSendDone ==
  /\ 1 \in Second.inflight.cur
  /\ PutOther(called(Fresh(Second), 1))

NextTwo ==
  \/ Listening
  \/ Query(1, "players")
  \/ \E packet \in TwoPackets : Message(packet)
  \/ Timeout(1)
  \/ SendDone(1)
  \/ OtherListening
  \/ OtherQuery
  \/ \E packet \in TwoPackets : OtherMessage(packet)
  \/ OtherTimeout
  \/ OtherSendDone

SpecTwo == Init /\ [][NextTwo]_vars

\* ------------------------------------------------ convenience functions
\* info(address, port, ...), players(...) and rules(...): a new A2SClient,
\* one call on it, and client.close() in a finally block, which runs in the
\* turn of the event loop in which the call settles.
settledCall(s) == s.query[1].status \in {"done", "failed"}

\* a function that returns what the call gave and closes nothing
returnOnly(before, s) == s

\* `try { return await client.info(); } finally { client.close(); }`, for
\* a step that takes the client from `before` to s
finallyClose(before, s) ==
  IF ~settledCall(before) /\ settledCall(s) THEN clientClose(s) ELSE s

\* the function is called: the constructor and the call run in one turn
ConvCall(kind) ==
  /\ query[1].status = "idle"
  /\ Commit(finallyClose(Cur, onQuery(Cur, 1, kind)))

ConvListening ==
  /\ query[1].status # "idle"
  /\ ~ready
  /\ Commit(finallyClose(Cur, onListening(Cur)))

ConvMessage(packet) ==
  /\ query[1].status # "idle"
  /\ ready
  /\ ~closed
  /\ Commit(finallyClose(Cur, onMessage(Cur, packet)))

ConvSocketError ==
  /\ query[1].status # "idle"
  /\ ~closed
  /\ Commit(finallyClose(Cur, resumeAll(emitError(Cur, "SocketError"),
                                        errorListeners)))

ConvTimeout ==
  /\ query[1].leg.timer
  /\ Commit(finallyClose(Cur, onTimer(Cur, 1)))

ConvSendDone(c) ==
  /\ isInflight(c)
  /\ Commit(finallyClose(Cur, called(Cur, c)))

ConvSendError(c) ==
  /\ isInflight(c)
  /\ Commit(finallyClose(Cur,
       resumeAll(sendFailed(called(Cur, c), c),
                 errorListeners \o (IF c = 0 THEN <<>> ELSE <<c>>))))

NextConv ==
  \/ \E kind \in Kinds : ConvCall(kind)
  \/ ConvListening
  \/ \E packet \in Packets : ConvMessage(packet)
  \/ ConvSocketError
  \/ ConvTimeout
  \/ \E c \in {0, 1} : ConvSendDone(c)
  \/ \E c \in {0, 1} : ConvSendError(c)

SpecConv == Init /\ [][NextConv]_vars

\* --------------------------------------------------------- codecs alone
\* The codecs are functions of their arguments: each is called once on an
\* input drawn from a set of inputs, with no client involved.
clientVars ==
  <<ready, closed, socketCloses, fragmentBuffer, dataListeners, errorListeners,
    clientClosed, query, inflight, thrown, assembled, other>>

Input(op, input) == [op |-> op, input |-> input, output |-> <<>>, done |-> FALSE]

\* the call returns (or throws): output is what it gave
Returns(op, output) ==
  /\ codec.op = op
  /\ ~codec.done
  /\ codec' = [codec EXCEPT !.output = output, !.done = TRUE]
  /\ UNCHANGED clientVars

\* challenges, by their four bytes on the wire
ChallengeBytes == {0, 1, 128, 255}

Challenges ==
  { word32(<<b1, b2, b3, b4>>) : b1 \in ChallengeBytes, b2 \in ChallengeBytes,
                                 b3 \in ChallengeBytes, b4 \in ChallengeBytes }

SerializeInputs ==
  { Input("serializeRequest", [kind |-> kind, challenge |-> challenge]) :
      kind \in Kinds, challenge \in Challenges }

\* protocol.serializeRequest(Number(challenge))
SerializeRequest ==
  Returns("serializeRequest",
          serializeRequest(codec.input.kind, codec.input.challenge))

\* a string, as the tests pass it to the writer
Str(chars) == [type |-> "string", data |-> chars]

\* a response body (the bytes after the response type byte) handed to the
\* parser of a kind, with what the body was built from
Response(kind, responseType, encoding, body, from) ==
  Input("deserializeResponse",
        [kind |-> kind, responseType |-> responseType, encoding |-> encoding,
         body |-> body, from |-> from])

\* protocol.deserializeResponse(reader, responseType, ping) on a reader at
\* the start of the body
DeserializeResponse ==
  Returns("deserializeResponse",
          deserializeResponse(codec.input.kind,
                              ByteReader(codec.input.body, TRUE,
                                         codec.input.encoding),
                              codec.input.responseType))

\* a modern info response up to its version string: protocol 17, "T", "m",
\* "c", "G", app 730, 10 of 32 players, no bots, 'd', 'l', no password, VAC,
\* version "1"
SourceBase ==
  toBuffer(writeFields(ByteWriter(TRUE, "utf-8"), SourceLayout,
                       <<17, Str(<<84>>), Str(<<109>>), Str(<<99>>),
                         Str(<<71>>), 730, 10, 32, 0, Str(<<100>>),
                         Str(<<108>>), FALSE, TRUE, Str(<<49>>)>>))

EdfFields == {"port", "steamId", "stv", "keywords", "gameId"}

\* the flags byte for the optional fields a response carries
edfByte(fields) ==
  (IF "port" \in fields THEN 128 ELSE 0)
  + (IF "steamId" \in fields THEN 16 ELSE 0)
  + (IF "stv" \in fields THEN 64 ELSE 0)
  + (IF "keywords" \in fields THEN 32 ELSE 0)
  + (IF "gameId" \in fields THEN 1 ELSE 0)

OptionalValues ==
  { [port |-> 27015, steamId |-> <<1, 2, 3, 4>>, stvPort |-> 27020,
     stvName |-> Str(<<116, 118>>), keywords |-> Str(<<97, 44, 98>>),
     gameId |-> <<730, 0, 0, 0>>],
    [port |-> 0, steamId |-> <<65535, 65535, 65535, 65535>>,
     stvPort |-> 65535, stvName |-> Str(<<>>), keywords |-> Str(<<>>),
     gameId |-> <<0, 0, 0, 32768>>] }

\* the optional fields of `fields`, written in the order of the wire format
edfTail(fields, v) ==
  toBuffer(writeFields(ByteWriter(TRUE, "utf-8"),
    (IF "port" \in fields THEN <<"u16">> ELSE <<>>)
    \o (IF "steamId" \in fields THEN <<"u64">> ELSE <<>>)
    \o (IF "stv" \in fields THEN <<"u16", "cstring">> ELSE <<>>)
    \o (IF "keywords" \in fields THEN <<"cstring">> ELSE <<>>)
    \o (IF "gameId" \in fields THEN <<"u64">> ELSE <<>>),
    (IF "port" \in fields THEN <<v.port>> ELSE <<>>)
    \o (IF "steamId" \in fields THEN <<v.steamId>> ELSE <<>>)
    \o (IF "stv" \in fields THEN <<v.stvPort, v.stvName>> ELSE <<>>)
    \o (IF "keywords" \in fields THEN <<v.keywords>> ELSE <<>>)
    \o (IF "gameId" \in fields THEN <<v.gameId>> ELSE <<>>)))

\* a modern info response for every subset of the five optional fields
EdfResponses ==
  { Response("info", A2S_INFO_RESPONSE, "utf-8",
             SourceBase \o <<edfByte(fields)>> \o edfTail(fields, v),
             [law |-> "edf", fields |-> fields, values |-> v]) :
      fields \in SUBSET EdfFields, v \in OptionalValues }

\* the values of the optional fields in the responses that are cut short
TailValues ==
  [port |-> 27015, steamId |-> <<1, 2, 3, 4>>, stvPort |-> 27020,
   stvName |-> Str(<<116, 118>>), keywords |-> Str(<<97, 44, 98>>),
   gameId |-> <<730, 0, 0, 0>>]

\* the first `cut` bytes of a modern info response that carries `fields`
Truncated(fields, cut) ==
  Response("info", A2S_INFO_RESPONSE, "utf-8",
           subarray(SourceBase \o <<edfByte(fields)>>
                    \o edfTail(fields, TailValues), 0, cut),
           [law |-> "truncated", fields |-> fields, cut |-> cut,
            whole |-> Len(SourceBase) + 1 + Len(edfTail(fields, TailValues))])

\* every modern info response above, cut at every length
TruncatedResponses ==
  { Truncated(fields, cut) :
      fields \in SUBSET EdfFields,
      cut \in 0..(Len(SourceBase) + 1 + Len(edfTail(EdfFields, TailValues))) }

\* a legacy info response up to its is-modified byte: address "a", "T",
\* "m", "c", "G", 3 of 16 players, protocol 48, 'd', 'l', no password
GoldSrcBase(isMod) ==
  toBuffer(writeFields(ByteWriter(TRUE, "utf-8"), GoldSrcLayout,
                       <<Str(<<97>>), Str(<<84>>), Str(<<109>>), Str(<<99>>),
                         Str(<<71>>), 3, 16, 48, Str(<<100>>), Str(<<108>>),
                         FALSE, isMod>>))

\* a mod block: website, download, the reserved byte, version, size,
\* multiplayer-only, custom DLL
ModValues ==
  { <<Str(<<119>>), Str(<<100>>), <<0>>, 100, 1024000, TRUE, FALSE>>,
    <<Str(<<>>), Str(<<>>), <<0>>, -1, 0, FALSE, TRUE>> }

\* what follows the is-modified byte in a response with a mod block: the
\* block, anti-cheat on, 2 bots, and one byte more
GoldSrcRest(mod) ==
  toBuffer(writeFields(
    write(writeFields(ByteWriter(TRUE, "utf-8"),
                      <<"cstring", "cstring">>, <<mod[1], mod[2]>>), <<0>>),
    <<"u32", "u32", "bool", "bool", "bool", "u8", "u8">>,
    <<mod[4], mod[5], mod[6], mod[7], TRUE, 2, 9>>))

\* legacy info responses with is-modified set and not set, followed by the
\* first `cut` bytes of the above
GoldSrcResponses ==
  UNION { { Response("info", A2S_INFO_RESPONSE_LEGACY, "utf-8",
                     GoldSrcBase(isMod) \o subarray(GoldSrcRest(mod), 0, cut),
                     [law |-> "mod", isMod |-> isMod, mod |-> mod,
                      rest |-> subarray(GoldSrcRest(mod), 0, cut)]) :
              cut \in 0..Len(GoldSrcRest(mod)) } :
          isMod \in BOOLEAN, mod \in ModValues }

\* rule names, "__proto__" among them, and rule values
RuleKeys == {Str(<<97>>), Str(<<98>>), Str(ProtoKey)}

RuleValues == {Str(<<49>>), Str(<<>>)}

Rule(key, value) == [key |-> key, value |-> value]

RECURSIVE RuleLists(_)
\* the lists of n rules
RuleLists(n) ==
  IF n = 0 THEN {<<>>}
  ELSE { Append(list, Rule(key, value)) :
           list \in RuleLists(n - 1), key \in RuleKeys, value \in RuleValues }

RECURSIVE writeRules(_, _)
writeRules(w, list) ==
  IF list = <<>> THEN w
  ELSE writeRules(writeCString(writeCString(w, Head(list).key),
                               Head(list).value), Tail(list))

\* a rules response: the 16-bit count, then the pairs
RulesResponses ==
  UNION { { Response("rules", A2S_RULES_RESPONSE, "utf-8",
                     toBuffer(writeRules(writeUint16(ByteWriter(TRUE, "utf-8"),
                                                     Len(list)), list)),
                     [law |-> "rules", list |-> list]) :
              list \in RuleLists(n) } :
          n \in 0..MaxRules }

\* a Buffer, as readCString returns it without an encoding
Buf(bytes) == [type |-> "Buffer", data |-> bytes]

Encodings == {"utf-8", "latin1", "null"}

\* null-terminated strings a writer and a reader of the encoding can hold:
\* "", "a", and text beyond ASCII (U+00E9 U+20AC U+1F600 in UTF-8, U+00E9
\* U+00FF in latin1, the bytes FF 80 with no encoding)
Texts(encoding) ==
  CASE encoding = "utf-8" ->
         <<Str(<<>>), Str(<<97>>), Str(<<233, 8364, 128512>>)>>
    [] encoding = "latin1" -> <<Str(<<>>), Str(<<97>>), Str(<<233, 255>>)>>
    [] encoding = "null" -> <<Buf(<<>>), Buf(<<97>>), Buf(<<255, 128>>)>>

\* the values written of each type: every integer width with 0, its minimum
\* and maximum, -1 when signed, and a value whose bytes differ; a 32-bit
\* unsigned value from 2^31 on is held as the signed integer of the same
\* bits, a 64-bit value as its four 16-bit limbs
ValuesOf(type, encoding) ==
  CASE type = "u8" -> <<0, 128, 255>>
    [] type = "i8" -> <<-128, -1, 0, 127>>
    [] type = "u16" -> <<0, 258, 65535>>
    [] type = "i16" -> <<-1, 0, -32768, 258, 32767>>
    [] type = "u32" -> <<0, 16909060, 2147483647, -1>>
    [] type = "i32" -> <<-2147483647 - 1, -1, 0, 16909060, 2147483647>>
    [] type = "u64" -> << <<0, 0, 0, 0>>, <<258, 772, 1286, 1800>>,
                          <<65535, 65535, 65535, 65535>> >>
    [] type = "i64" -> << <<0, 0, 0, 32768>>, <<0, 0, 0, 0>>,
                          <<65535, 65535, 65535, 65535>>,
                          <<65535, 65535, 65535, 32767>> >>
    [] type = "bool" -> <<TRUE, FALSE>>
    [] type = "cstring" -> Texts(encoding)

WriteTypes ==
  {"u8", "i8", "u16", "i16", "u32", "i32", "u64", "i64", "bool", "cstring"}

\* which of the values of its type each write of a list takes: the values
\* of a type in turn, the longest list of values has five
Picks == 1..5

pickOf(values, pick) == values[((pick - 1) % Len(values)) + 1]

RECURSIVE WriteLists(_)
\* the lists of n types to write
WriteLists(n) ==
  IF n = 0 THEN {<<>>}
  ELSE { Append(list, type) : list \in WriteLists(n - 1), type \in WriteTypes }

\* a writer and a reader of the same byte order and encoding, and the
\* writes made
RoundTrips ==
  UNION { { Input("roundTrip",
                  [littleEndian |-> littleEndian, encoding |-> encoding,
                   writes |-> list, pick |-> pick]) :
              list \in WriteLists(n), pick \in Picks } :
          littleEndian \in BOOLEAN, encoding \in Encodings, n \in 1..MaxWrites }

typesOf(input) == input.writes

valuesOf(input) ==
  [k \in DOMAIN input.writes |->
     pickOf(ValuesOf(input.writes[k], input.encoding), input.pick)]

\* writer.toBuffer() after the writes
Written(input) ==
  toBuffer(writeFields(ByteWriter(input.littleEndian, input.encoding),
                       typesOf(input), valuesOf(input)))

\* the writes, then the reads of the same types from writer.toBuffer()
RoundTrip ==
  Returns("roundTrip",
          readFields(ByteReader(Written(codec.input), codec.input.littleEndian,
                                codec.input.encoding),
                     typesOf(codec.input), <<>>))

\* response bodies of the three kinds, with bytes beyond ASCII in their
\* texts: a modern info response without optional fields, a legacy info
\* response without a mod block, one player named E9, two rules named FF
\* and "a"
WholeBodies ==
  { [kind |-> "info", responseType |-> A2S_INFO_RESPONSE,
     body |-> <<17, 233, 0, 109, 0, 99, 0, 71, 0>> \o writeUInt16LE(730)
              \o <<10, 32, 0, 68, 108, 0, 1, 49, 0, 0>>],
    [kind |-> "info", responseType |-> A2S_INFO_RESPONSE_LEGACY,
     body |-> <<97, 0, 233, 0, 109, 0, 99, 0, 71, 0, 3, 16, 48, 100, 108, 0,
                0, 1, 2>>],
    [kind |-> "players", responseType |-> A2S_PLAYER_RESPONSE,
     body |-> <<1, 0, 233, 0>> \o writeUInt32LE(-1) \o <<0, 0, 128, 63>>],
    [kind |-> "rules", responseType |-> A2S_RULES_RESPONSE,
     body |-> writeUInt16LE(2) \o <<255, 0, 49, 0, 97, 0, 195, 169, 0>>] }

\* the bodies above, whole and cut at every length
ModeInputs ==
  UNION { { Input("everyEncoding",
                  [kind |-> whole.kind, responseType |-> whole.responseType,
                   body |-> subarray(whole.body, 0, cut)]) :
              cut \in 0..Len(whole.body) } :
          whole \in WholeBodies }

\* protocol.deserializeResponse on the same bytes under each encoding a
\* client can be given
EveryEncoding ==
  Returns("everyEncoding",
          [encoding \in Encodings |->
             deserializeResponse(codec.input.kind,
                                 ByteReader(codec.input.body, TRUE, encoding),
                                 codec.input.responseType)])

\* message ids of fragments: plain (1, 7FFF), with bit 15 set (8001, the
\* 123 | 1 << 15 of the test, FFFFFFFF), and FFFF7FFF with every bit but 15
FragmentIds == {1, 32767, 32769, 32891, -1, -32769}

\* what follows the header of a fragment: nothing, the deflate stream of a
\* rules response, the same stream less its last byte, bytes that are no
\* stream, and the text "invalid" of the test
FragmentPayloads ==
  { <<>>, DeflatedRules, SubSeq(DeflatedRules, 1, Len(DeflatedRules) - 1),
    <<1, 2, 3>>, <<105, 110, 118, 97, 108, 105, 100>> }

\* the bytes of a fragment as the tests write them: the 8 header bytes, the
\* decompressed size and checksum when the server compressed, the payload
fragmentBytes(from) ==
  toBuffer(write(writeFields(ByteWriter(TRUE, "utf-8"),
                             IF from.compressed
                             THEN <<"u32", "u8", "u8", "u16", "u32", "u32">>
                             ELSE <<"u32", "u8", "u8", "u16">>,
                             <<from.messageId, from.fragmentCount,
                               from.fragmentId, from.mtu,
                               from.decompressedSize, from.crc>>),
                 from.payload))

\* fragments whole and cut at every length, with what they were written from
FragmentInputs ==
  UNION { { Input("decodeFragment",
                  [data |-> subarray(fragmentBytes(from), 0, cut),
                   whole |-> cut = Len(fragmentBytes(from)),
                   from |-> from]) :
              cut \in 0..Len(fragmentBytes(from)) } :
          from \in [messageId : FragmentIds, fragmentCount : {4},
                    fragmentId : {0, 2}, mtu : {1200},
                    compressed : BOOLEAN,
                    decompressedSize : {0, 512}, crc : {305419896},
                    payload : FragmentPayloads] }

\* decodeFragment(data)
DecodeFragment ==
  Returns("decodeFragment", decodeFragment(codec.input.data))

InitCodec ==
  /\ InitClient
  /\ \/ codec \in SerializeInputs
     \/ codec \in EdfResponses
     \/ codec \in TruncatedResponses
     \/ codec \in GoldSrcResponses
     \/ codec \in RulesResponses
     \/ codec \in RoundTrips
     \/ codec \in ModeInputs
     \/ codec \in FragmentInputs

NextCodec ==
  \/ SerializeRequest
  \/ DeserializeResponse
  \/ RoundTrip
  \/ EveryEncoding
  \/ DecodeFragment

SpecCodec == InitCodec /\ [][NextCodec]_vars

\* ------------------------------------------------------------------ claims
Live(q) == query[q].status \in {"awaiting", "done", "failed"}

NoRequestPending == \A q \in Queries : query[q].status # "awaiting"

\* C1: a query whose every leg is answered with a challenge response sends
\* exactly DEFAULT_RETRIES + 1 = 6 requests and then fails with the
\* challenge-limit error; no query ever sends a seventh request.
C1_ChallengeLoopBounded ==
  \A q \in Queries :
    Live(q) =>
    /\ query[q].legs <= DEFAULT_RETRIES + 1
    /\ query[q].tx <= query[q].legs
    /\ (/\ query[q].status \in {"done", "failed"}
        /\ query[q].legs > 0
        /\ query[q].chal = query[q].legs)
       => /\ query[q].status = "failed"
          /\ query[q].error = "ChallengeLimit"
          /\ query[q].legs = DEFAULT_RETRIES + 1
          /\ query[q].tx = DEFAULT_RETRIES + 1

C1_Witness ==
  \E q \in Queries :
    /\ query[q].status = "failed"
    /\ query[q].error = "ChallengeLimit"
    /\ query[q].chal = DEFAULT_RETRIES + 1
    /\ query[q].tx = DEFAULT_RETRIES + 1

\* C2: a request of the socket settles exactly once: its outcome is the first
\* of response, error and timeout delivered to it; while it is pending its
\* timer is armed and its listeners are registered, so one of the three can
\* always settle it; once settled, no later event changes the outcome.
C2_FirstEventWins ==
  \A q \in Queries :
    Live(q) =>
      /\ query[q].leg.outcome = query[q].leg.first
      /\ (query[q].status = "awaiting" /\ query[q].leg.outcome.state = "pending")
         => /\ query[q].leg.timer
            /\ \E i \in DOMAIN dataListeners : dataListeners[i] = q
            /\ \E i \in DOMAIN errorListeners : errorListeners[i] = q

C2_OutcomeKept ==
  \A q \in Queries :
    (/\ Live(q)
     /\ query[q].leg.outcome.state # "pending"
     /\ query'[q].legs = query[q].legs
     /\ query'[q].status # "archived")
    => query'[q].leg.outcome = query[q].leg.outcome

C2_SettlesOnce == []C2_FirstEventWins /\ [][C2_OutcomeKept]_vars

\* the request was settled by one event and another one came after it
C2_Witness ==
  \E q \in Queries :
    /\ query[q].status = "failed"
    /\ query[q].leg.outcome = Rejected("SocketError")
    /\ query[q].leg.first = Rejected("SocketError")
    /\ thrown = "SocketError"

\* C3: once the pending request has timed out and no request is pending, a
\* malformed datagram or a socket error raises no unhandled error.
C3_LateEventIgnored ==
  (/\ NoRequestPending
   /\ \E q \in Queries : query[q].status = "failed" /\ query[q].error = "Timeout")
  => thrown \notin {"PacketTooShort", "InvalidHeader", "SocketError"}

\* C4: the step in which the timer of a pending request fires fails the query
\* with the timeout error, removes the data and error listeners and leaves
\* the socket as it was: it is not closed.
C4_TimeoutStep ==
  \A q \in Queries :
    (/\ query[q].status = "awaiting"
     /\ query[q].leg.outcome.state = "pending"
     /\ query'[q].legs = query[q].legs
     /\ query'[q].leg.first = Rejected("Timeout"))
    => /\ query'[q].status = "failed"
       /\ query'[q].error = "Timeout"
       /\ query'[q].leg.outcome = Rejected("Timeout")
       /\ dataListeners' = <<>>
       /\ errorListeners' = <<>>
       /\ closed' = closed
       /\ socketCloses' = socketCloses
       /\ clientClosed' = clientClosed

C4_TimeoutLeavesSocketOpen == [][C4_TimeoutStep]_vars

C4_Witness ==
  \E q \in Queries :
    /\ query[q].status = "failed"
    /\ query[q].error = "Timeout"
    /\ query[q].tx = 1
    /\ ready
    /\ ~closed
    /\ dataListeners = <<>>
    /\ errorListeners = <<>>

\* the fragments are those of one message: one message id, as many fragments
\* as they announce, the fragment ids 0 .. n-1 once each
IsWholeMessage(frags) ==
  /\ frags # <<>>
  /\ \A i \in DOMAIN frags :
       /\ frags[i].messageId = frags[1].messageId
       /\ frags[i].fragmentCount = Len(frags)
  /\ \A id \in 0 .. Len(frags) - 1 :
       Cardinality({i \in DOMAIN frags : frags[i].fragmentId = id}) = 1

RECURSIVE payloadsFromId(_, _)
payloadsFromId(frags, id) ==
  IF id >= Len(frags) THEN <<>>
  ELSE frags[CHOOSE i \in DOMAIN frags : frags[i].fragmentId = id].payload
         \o payloadsFromId(frags, id + 1)

\* C5: a message is produced only when the number of fragments received for
\* the message id of the fragment that completes it equals its fragmentCount.
C5_CountGatedPerMessage ==
  assembled.from # <<>> =>
    Cardinality({i \in DOMAIN assembled.from :
                   assembled.from[i].messageId =
                     assembled.from[Len(assembled.from)].messageId})
      = assembled.from[Len(assembled.from)].fragmentCount

\* C6: the fragments of one message, in whatever order they arrived, are
\* put together to the same bytes: the payloads in ascending fragmentId
\* order (less the FF FF FF FF the first one may carry).
C6_OrderIndependent ==
  IsWholeMessage(assembled.from) =>
    assembled.data = stripSimpleHeader(payloadsFromId(assembled.from, 0))

\* three fragments that arrived last one first
C6_Witness ==
  /\ IsWholeMessage(assembled.from)
  /\ Len(assembled.from) = 3
  /\ assembled.from[1].fragmentId = 2
  /\ assembled.from[2].fragmentId = 1
  /\ assembled.data = <<69, 1, 0, 97, 0, 98, 0>>

\* C7: a message is put together from fragments of one message id only.
C7_OneMessageId ==
  \A i \in DOMAIN assembled.from :
    assembled.from[i].messageId = assembled.from[1].messageId

\* C8: a query that succeeds returns its result with the socket closed, after
\* a direct response and after challenge retries alike.
C8_ClosedOnSuccess ==
  \A q \in Queries : query[q].status = "done" => query[q].closedAtReturn

\* C9: a query that fails on the challenge-retry bound returns its failure
\* with the socket closed, by one close.
C9_ClosedOnChallengeLimit ==
  \A q \in Queries :
    (query[q].status = "failed" /\ query[q].error = "ChallengeLimit")
    => query[q].closedAtReturn /\ socketCloses = 1

\* C10: a query that fails on a response type which is neither the challenge
\* byte nor valid for its codec returns its failure with the socket closed,
\* on the first leg and after a challenge retry alike.
C10_ClosedOnInvalidType ==
  \A q \in Queries :
    (query[q].status = "failed" /\ query[q].error = "InvalidResponseType")
    => query[q].closedAtReturn

\* C11: a query that fails on a datagram with an invalid header or shorter
\* than 4 bytes returns its failure with the socket closed.
C11_ClosedOnMalformedDatagram ==
  \A q \in Queries :
    (/\ query[q].status = "failed"
     /\ query[q].error \in {"PacketTooShort", "InvalidHeader"})
    => query[q].closedAtReturn

\* C12: a pending request to which the error of a datagram transmission is
\* delivered fails with that error, and the socket is closed when the
\* failure is returned, by exactly one close of the underlying socket.
C12_SendFailureCloses ==
  \A q \in Queries :
    (Live(q) /\ query[q].leg.first = Rejected("SendFailed"))
    => /\ query[q].status = "failed"
       /\ query[q].error = "SendFailed"
       /\ query[q].closedAtReturn
       /\ closed
       /\ socketCloses = 1

\* the send of the request itself failed, the caller had not closed
C12_Witness ==
  \E q \in Queries :
    /\ query[q].status = "failed"
    /\ query[q].error = "SendFailed"
    /\ query[q].tx = 1
    /\ ~clientClosed
    /\ closed
    /\ socketCloses = 1

\* C13: no step that starts with the socket closed transmits a datagram or
\* leaves a send callback outstanding that was not.
C13_NoSendStep ==
  closed =>
    /\ \A q \in Queries : query'[q].tx <= query[q].tx
    /\ inflight'.cur \subseteq inflight.cur
    /\ inflight'.stale <= inflight.stale

C13_NoSendAfterClose == [][C13_NoSendStep]_vars

\* close() was called while the send was waiting for the socket to listen
C13_Witness ==
  \E q \in Queries :
    /\ clientClosed
    /\ ready
    /\ query[q].legs = 1
    /\ query[q].leg.sendpc = "dropped"
    /\ query[q].tx = 0

\* C14: the close of the underlying socket is invoked at most once.
C14_CloseAtMostOnce == socketCloses <= 1

\* the socket was closed by a failed send and the client was closed as well
C14_Witness ==
  /\ socketCloses = 1
  /\ clientClosed
  /\ \E q \in Queries :
       query[q].status = "failed" /\ query[q].error = "SendFailed"

\* C15: a query called on a closed client fails with the already-closed
\* error in the call itself, starts no request and transmits nothing.
C15_ClosedClientStep ==
  \A q \in Queries :
    (clientClosed /\ query[q].status = "idle" /\ query'[q].status # "idle")
    => /\ query'[q].kind \in Kinds
       /\ query'[q].status = "failed"
       /\ query'[q].error = "ClientClosed"
       /\ query'[q].legs = 0
       /\ query'[q].tx = 0
       /\ inflight' = inflight
       /\ dataListeners' = dataListeners

C15_ClosedClientFails == [][C15_ClosedClientStep]_vars

C15_Witness ==
  \E q \in Queries :
    /\ query[q].kind = "players"
    /\ query[q].status = "failed"
    /\ query[q].error = "ClientClosed"
    /\ query[q].tx = 0

\* C16: on a client the caller never closes, a call made after a call has
\* succeeded and while none is pending starts a request of its own.
C16_NextCallStep ==
  \A q \in Queries :
    (/\ NoRequestPending
     /\ \E p \in Queries : query[p].status = "done"
     /\ query[q].status = "idle"
     /\ query'[q].status # "idle")
    => /\ query'[q].status = "awaiting"
       /\ query'[q].legs = 1

C16_ClientReusable == [][C16_NextCallStep]_vars

\* the pending request of call q is handed a response in this step
DataDelivered(q) ==
  /\ query[q].status = "awaiting"
  /\ query[q].leg.outcome.state = "pending"
  /\ \/ query'[q].legs > query[q].legs
     \/ query'[q].leg.first.state = "resolved"

\* C17: of the requests pending on one client, at most one is settled by a
\* response datagram.
C17_OneRequestPerDatagram ==
  [][Cardinality({q \in Queries : DataDelivered(q)}) <= 1]_vars

IsPending(q) ==
  query[q].status = "awaiting" /\ query[q].leg.outcome.state = "pending"

\* the request of call q gets these bytes as its response in this step: it
\* resolves with them, or the client has already gone on to the retry leg
ResponseDelivered(q, data) ==
  \/ /\ query'[q].legs = query[q].legs
     /\ query'[q].leg.outcome = Resolved(data)
  \/ /\ query'[q].legs = query[q].legs + 1
     /\ Len(data) >= 5
     /\ data[1] = 65

Classified(q, packet) ==
  IF Len(packet) < 4
  THEN query'[q].status = "failed" /\ query'[q].error = "PacketTooShort"
  ELSE IF SubSeq(packet, 1, 4) = <<255, 255, 255, 255>>
  THEN ResponseDelivered(q, SubSeq(packet, 5, Len(packet)))
  ELSE IF SubSeq(packet, 1, 4) = <<254, 255, 255, 255>>
  THEN IF assembled' # NoAssembly
       THEN ResponseDelivered(q, assembled'.data)
       ELSE query'[q] = query[q]
  ELSE query'[q].status = "failed" /\ query'[q].error = "InvalidHeader"

\* C19: a datagram is classified by its first 4 bytes. FF FF FF FF: the rest
\* is the response of the pending request at once. FE FF FF FF: the request
\* gets a response only if the step completes a message, and then the
\* reassembled one. Shorter than 4 bytes, or any other header: the pending
\* request fails with the too-short or the invalid-header error.
C19_ClassifiedStep ==
  \A q \in Queries, packet \in RecvPackets :
    (IsPending(q) /\ Message(packet)) => Classified(q, packet)

C19_ClassifiedByHeader == [][C19_ClassifiedStep]_vars

\* a call whose challenge response came in two fragments and was retried
C19_Witness ==
  /\ assembled # NoAssembly
  /\ query[1].legs = 2
  /\ query[1].challenge = word32(<<18, 52, 86, 120>>)

\* the response bytes of the datagram of this step
responseOf(packet) ==
  IF SubSeq(packet, 1, 4) = <<254, 255, 255, 255>>
  THEN assembled'.data
  ELSE SubSeq(packet, 5, Len(packet))

RetryOf(q, data) ==
  /\ query'[q].kind = query[q].kind
  /\ query'[q].retries = query[q].retries + 1
  /\ query'[q].challenge = word32(SubSeq(data, 2, 5))
  /\ query'[q].payload = serializeRequest(query[q].kind,
                                          word32(SubSeq(data, 2, 5)))
  /\ (query[q].kind # "info" \/ SubSeq(data, 2, 5) # <<0, 0, 0, 0>>)
     => SubSeq(query'[q].payload, Len(query'[q].payload) - 3,
               Len(query'[q].payload)) = SubSeq(data, 2, 5)
  /\ query'[q].leg.sendpc = "sent"
  /\ query'[q].tx = query[q].tx + 1

\* C20: the first leg of a call is the request of its kind serialized with
\* challenge 0 and retry counter 0; a retry leg is the request of the same
\* kind serialized with the 4 little-endian challenge bytes of the
\* challenge response that caused it, the retry counter one higher.
C20_LegStep ==
  \A q \in Queries :
    /\ (query[q].status = "idle" /\ query'[q].legs = 1)
       => /\ query'[q].retries = 0
          /\ query'[q].challenge = 0
          /\ query'[q].payload = serializeRequest(query'[q].kind, 0)
    /\ \A packet \in RecvPackets :
         (/\ IsPending(q)
          /\ Message(packet)
          /\ query'[q].legs = query[q].legs + 1)
         => RetryOf(q, responseOf(packet))

C20_RetryEchoesChallenge == [][C20_LegStep]_vars

\* a fifth retry leg, sent with the challenge FF FF FF FF
C20_Witness ==
  /\ query[1].kind = "info"
  /\ query[1].retries = DEFAULT_RETRIES
  /\ query[1].leg.sendpc = "sent"
  /\ query[1].payload = <<84>> \o SourceEngineQuery \o <<255, 255, 255, 255>>

\* what one client with one call of this kind can do next when it runs alone
StepsAlone(s, kind) ==
  { t \in
      (IF ~s.ready THEN {onListening(Fresh(s))} ELSE {})
      \cup (IF s.query[1].status = "idle"
            THEN {onQuery(Fresh(s), 1, kind)} ELSE {})
      \cup (IF s.ready /\ ~s.closed
            THEN {onMessage(Fresh(s), packet) : packet \in TwoPackets}
            ELSE {})
      \cup (IF s.query[1].leg.timer THEN {onTimer(Fresh(s), 1)} ELSE {})
      \cup (IF 1 \in s.inflight.cur THEN {called(Fresh(s), 1)} ELSE {}) :
    fits(t) }

\* C18: two clients do not interfere. Every step of the two together is a
\* step one of them can take alone from its own fields, and leaves the
\* fields of the other one as they were; so what each call does and returns
\* is what it does and returns when its client runs alone.
C18_Step ==
  /\ First' = First \/ other' = other
  /\ First' = First \/ First' \in StepsAlone(First, "players")
  /\ other' = other \/ other' \in StepsAlone(other, "rules")

Returned(op) == codec.op = op /\ codec.done

\* the 4 bytes at 0-based offset `at` are the challenge, little-endian
CarriesChallenge(payload, at, challenge) ==
  /\ Len(payload) = at + 4
  /\ word32(SubSeq(payload, at + 1, at + 4)) = challenge

\* 'T', then "Source Engine Query", then NUL
IsInfoRequestHead(payload) ==
  /\ Len(payload) >= 21
  /\ SubSeq(payload, 1, 21) =
       <<84, 83, 111, 117, 114, 99, 101, 32, 69, 110, 103, 105, 110, 101, 32,
         81, 117, 101, 114, 121, 0>>

\* C21: the info request is 0x54, 'Source Engine Query' and a NUL, followed by
\* the 4 little-endian challenge bytes exactly when the challenge is not
\* zero; the players (0x55) and rules (0x56) requests are their type byte
\* and 4 little-endian challenge bytes, for a zero challenge too.
C21_RequestPayloads ==
  Returned("serializeRequest") =>
    CASE codec.input.kind = "info" ->
           /\ IsInfoRequestHead(codec.output)
           /\ IF codec.input.challenge # 0
              THEN CarriesChallenge(codec.output, 21, codec.input.challenge)
              ELSE Len(codec.output) = 21
      [] codec.input.kind = "players" ->
           /\ codec.output[1] = 85
           /\ CarriesChallenge(codec.output, 1, codec.input.challenge)
      [] codec.input.kind = "rules" ->
           /\ codec.output[1] = 86
           /\ CarriesChallenge(codec.output, 1, codec.input.challenge)

\* a players request has been built for the zero challenge
C21_Witness ==
  /\ Returned("serializeRequest")
  /\ codec.input.challenge = 0
  /\ codec.input.kind = "players"
  /\ codec.output = <<85, 0, 0, 0, 0>>

\* the parser of a response built for the law `law` has returned
Parsed(law) ==
  /\ Returned("deserializeResponse")
  /\ codec.input.from.law = law

\* the optional field `name` of a parsed modern info record is populated
Populated(info, name) == \E k \in DOMAIN info.optional : info.optional[k][1] = name

\* the optional field `name` is populated with `value`
Holds(info, name, value) ==
  \E k \in DOMAIN info.optional : info.optional[k] = <<name, value>>

\* the optional field `name` is populated with `value` if the response
\* carries it, and not populated if it does not
OptionalIff(info, carried, name, value) ==
  IF carried THEN Holds(info, name, value) ELSE ~Populated(info, name)

\* C22: for every subset of the flag bits 0x80, 0x10, 0x40, 0x20, 0x01, a
\* modern info response carrying that subset's fields in the fixed order
\* parses to a record with exactly those optional fields populated (port;
\* steamId; stvPort and stvName; keywords; gameId), holding the values that
\* were written.
C22_EdfOptionalFields ==
  Parsed("edf") =>
    /\ codec.output.ok
    /\ codec.output.value.edf = edfByte(codec.input.from.fields)
    /\ OptionalIff(codec.output.value, "port" \in codec.input.from.fields,
                   "port", codec.input.from.values.port)
    /\ OptionalIff(codec.output.value, "steamId" \in codec.input.from.fields,
                   "steamId", codec.input.from.values.steamId)
    /\ OptionalIff(codec.output.value, "stv" \in codec.input.from.fields,
                   "stvPort", codec.input.from.values.stvPort)
    /\ OptionalIff(codec.output.value, "stv" \in codec.input.from.fields,
                   "stvName", codec.input.from.values.stvName)
    /\ OptionalIff(codec.output.value, "keywords" \in codec.input.from.fields,
                   "keywords", codec.input.from.values.keywords)
    /\ OptionalIff(codec.output.value, "gameId" \in codec.input.from.fields,
                   "gameId", codec.input.from.values.gameId)

\* a response carrying the steam id and the spectator fields but neither
\* port nor keywords nor game id has been parsed
C22_Witness ==
  /\ Parsed("edf")
  /\ codec.input.from.fields = {"steamId", "stv"}
  /\ codec.output.ok
  /\ Len(codec.output.value.optional) = 3

\* C23: a modern info response cut immediately before the extra-data-flags
\* byte parses with edf = 0 and no optional field; cut anywhere else before
\* its end, the parse throws BufferExhaustedError.
C23_MissingFlagsTolerated ==
  Parsed("truncated") =>
    IF codec.input.from.cut = Len(SourceBase)
    THEN /\ codec.output.ok
         /\ codec.output.value.edf = 0
         /\ codec.output.value.optional = <<>>
    ELSE IF codec.input.from.cut >= codec.input.from.whole
    THEN /\ codec.output.ok
         /\ codec.output.value.edf = edfByte(codec.input.from.fields)
    ELSE /\ ~codec.output.ok
         /\ codec.output.error = "BufferExhaustedError"

\* a response that carries a port and keywords has been parsed from its
\* bytes up to the flags byte, the flags byte not included
C23_Witness ==
  /\ Parsed("truncated")
  /\ codec.input.from.fields = {"port", "keywords"}
  /\ codec.input.from.cut = Len(SourceBase)
  /\ codec.output.ok
  /\ codec.output.value.version = Str(<<49>>)

\* the parse ended with anti-cheat and bot count taken from the two bytes
\* at 0-based offset `at` of what follows the is-modified byte
LastTwoAt(info, rest, at) ==
  /\ info.vacEnabled = (rest[at + 1] # 0)
  /\ info.botCount = rest[at + 2]

\* C24: in a legacy info response the mod block is parsed if and only if
\* is-modified is true and at least 3 bytes follow the is-modified byte;
\* otherwise it is skipped and anti-cheat and bot count are the two bytes
\* right after the is-modified byte. With a mod block they are the two bytes
\* after it. Nothing is read after them.
C24_ModBlockGated ==
  Parsed("mod") =>
    IF codec.input.from.isMod /\ Len(codec.input.from.rest) >= 3
    THEN IF Len(codec.input.from.rest) >= Len(GoldSrcRest(codec.input.from.mod)) - 1
         THEN /\ codec.output.ok
              /\ codec.output.value.mod = codec.input.from.mod
              /\ LastTwoAt(codec.output.value, codec.input.from.rest,
                           Len(GoldSrcRest(codec.input.from.mod)) - 3)
         ELSE ~codec.output.ok
    ELSE IF Len(codec.input.from.rest) >= 2
         THEN /\ codec.output.ok
              /\ codec.output.value.mod = <<>>
              /\ LastTwoAt(codec.output.value, codec.input.from.rest, 0)
         ELSE ~codec.output.ok

\* is-modified is set and only two bytes follow it: they were read as
\* anti-cheat and bot count
C24_Witness ==
  /\ Parsed("mod")
  /\ codec.input.from.isMod
  /\ Len(codec.input.from.rest) = 2
  /\ codec.output.ok
  /\ codec.output.value.isMod
  /\ codec.output.value.mod = <<>>

\* the names in a list of rules
KeysOf(list) == { list[k].key.data : k \in DOMAIN list }

\* the pair at index k is the last one of the list with its name
IsLastOfKey(list, k) == \A j \in DOMAIN list : j > k => list[j].key # list[k].key

\* C25: the rules parser reads the 16-bit count and that many pairs into a
\* mapping: no pair gives the empty mapping, and the mapping has one entry
\* for every name in the response, holding the value of the last pair with
\* that name.
C25_RulesMapping ==
  Parsed("rules") =>
    /\ codec.output.ok
    /\ DOMAIN codec.output.value = KeysOf(codec.input.from.list)
    /\ \A k \in DOMAIN codec.input.from.list :
         IsLastOfKey(codec.input.from.list, k) =>
           codec.output.value[codec.input.from.list[k].key.data]
             = codec.input.from.list[k].value

\* the same for the responses in which no rule is named __proto__
RulesMappingButProto ==
  (Parsed("rules") /\ ProtoKey \notin KeysOf(codec.input.from.list))
    => C25_RulesMapping

\* C26: for every integer width (8, 16, 32, 64 bits, signed and unsigned,
\* little- and big-endian), for booleans and for null-terminated strings, a
\* ByteReader reading what a ByteWriter of the same byte order and encoding
\* wrote returns the values written, in the order written, and has then
\* read every byte.
C26_RoundTrip ==
  Returned("roundTrip") =>
    /\ codec.output.ok
    /\ codec.output.value = valuesOf(codec.input)
    /\ codec.output.reader.position = Len(Written(codec.input))

\* big-endian: the signed 16-bit minimum and then a string beyond ASCII
\* have been written and read back
C26_Witness ==
  /\ Returned("roundTrip")
  /\ ~codec.input.littleEndian
  /\ typesOf(codec.input) = <<"i16", "cstring">>
  /\ valuesOf(codec.input) = <<-32768, Str(<<233, 8364, 128512>>)>>
  /\ codec.output.ok
  /\ Written(codec.input) = <<128, 0, 195, 169, 226, 130, 172, 240, 159, 152, 128, 0>>

\* two parses of the same bytes both succeed, having read up to the same
\* position, or both fail
SameParse(a, b) ==
  /\ a.ok = b.ok
  /\ a.ok => a.position = b.position

\* C27: the text decoding does not affect byte-level parsing: on the same
\* response bytes the info, players and rules parsers succeed or fail alike
\* and read the same bytes under utf-8, a single-byte encoding and no
\* decoding.
C27_EncodingOrthogonal ==
  Returned("everyEncoding") =>
    \A e1 \in Encodings, e2 \in Encodings :
      SameParse(codec.output[e1], codec.output[e2])

\* the same for every response but a modern info response
EncodingOrthogonalButSource ==
  (Returned("everyEncoding") /\ codec.input.responseType # A2S_INFO_RESPONSE)
    => C27_EncodingOrthogonal

\* C28: a convenience function makes one client and one call on it, and
\* when the call has settled, with a result or with a failure, the client
\* is closed and the close of the underlying socket has run exactly once;
\* it never runs twice.
C28_ConvenienceCloses ==
  /\ socketCloses <= 1
  /\ \A q \in Queries : q # 1 => query[q].status = "idle"
  /\ query[1].status \in {"done", "failed"} =>
       /\ clientClosed
       /\ closed
       /\ socketCloses = 1

\* the call has failed by timeout after a challenge, and the socket was
\* closed once
C28_Witness ==
  /\ query[1].status = "failed"
  /\ query[1].error = "Timeout"
  /\ query[1].legs = 2
  /\ clientClosed
  /\ socketCloses = 1

\* C29: with one call and nobody else closing (no close() by the user, no
\* send failure), the Transport and the Client stay open from the first
\* send to the response of the last leg: while the call is pending no close
\* has run, and no leg fails for finding the client closed.
C29_OpenBetweenLegs ==
  /\ query[1].status = "awaiting" =>
       /\ ~closed
       /\ ~clientClosed
       /\ socketCloses = 0
  /\ query[1].error # "ClientClosed"

\* the third leg of a call is pending after two challenge responses
C29_Witness ==
  /\ query[1].status = "awaiting"
  /\ query[1].legs = 3
  /\ query[1].retries = 2
  /\ query[1].tx = 3
  /\ ~closed

\* the first half of C30 alone: the callback that concatenates and emits a
\* message leaves the pending fragment set empty
EmptiedOnEmit == assembled # NoAssembly => fragmentBuffer = <<>>

\* C30: the pending fragment set is empty right after a message has been
\* concatenated and emitted, and it is empty once the Transport is closed.
C30_BufferDiscarded ==
  /\ EmptiedOnEmit
  /\ closed => fragmentBuffer = <<>>

\* the payloads of the fragments a message was put together from, in
\* ascending fragmentId order, end to end
Concatenated(from) == concatPayloads(sortByFragmentId(from))

\* the bytes without their first four when these are FF FF FF FF
LessWrapper(bytes) ==
  IF Len(bytes) >= 4 /\ \A i \in 1..4 : bytes[i] = 255
  THEN SubSeq(bytes, 5, Len(bytes))
  ELSE bytes

\* C31: the step that completes a multi-datagram message emits its
\* concatenated payloads without their first four bytes when these are
\* FF FF FF FF and unchanged otherwise, and the pending request resolves
\* with exactly these bytes.
C31_WrapperStripped ==
  [][assembled' # NoAssembly =>
       /\ assembled'.data = LessWrapper(Concatenated(assembled'.from))
       /\ \A i \in DOMAIN dataListeners :
            query'[dataListeners[i]].leg.outcome
              = Resolved(LessWrapper(Concatenated(assembled'.from)))]_vars

\* the three fragments of message 1, whose first payload starts with
\* FF FF FF FF, have been delivered to the pending request without it
C31_Witness ==
  /\ Len(assembled.from) = 3
  /\ SubSeq(Concatenated(assembled.from), 1, 4) = HEADER_SIMPLE
  /\ assembled.data = <<69, 1, 0, 97, 0, 98, 0>>
  /\ query[1].leg.outcome = Resolved(<<69, 1, 0, 97, 0, 98, 0>>)
  /\ query[1].status = "done"

\* a message that does not start with FF FF FF FF is delivered as it is
DeliveredUnchanged ==
  /\ assembled # NoAssembly
  /\ assembled.data = Concatenated(assembled.from)
  /\ Len(assembled.data) < 4
  /\ query[1].leg.outcome = Resolved(assembled.data)

\* a fragment with bit 15 of its message id set arrived whole (the 16
\* header bytes at least) and zlib.inflateSync throws on what follows them
InflateFails ==
  /\ Returned("decodeFragment")
  /\ Len(codec.input.data) >= 16
  /\ codec.input.data[2] >= 128
  /\ ~inflateSync(SubSeq(codec.input.data, 17, Len(codec.input.data))).ok

\* C32: when the decompression of a fragment with bit 15 of its message id
\* set fails, decodeFragment raises nothing: it returns the fragment with
\* the six header fields as read and the bytes after them, still
\* compressed, as its payload.
C32_InflateFailureTolerated ==
  InflateFails =>
    /\ codec.output.ok
    /\ codec.output.value.messageId = word32(SubSeq(codec.input.data, 1, 4))
    /\ codec.output.value.fragmentCount = codec.input.data[5]
    /\ codec.output.value.fragmentId = codec.input.data[6]
    /\ codec.output.value.mtu = codec.input.data[7] + 256 * codec.input.data[8]
    /\ codec.output.value.decompressedSize
         = word32(SubSeq(codec.input.data, 9, 12))
    /\ codec.output.value.crc = word32(SubSeq(codec.input.data, 13, 16))
    /\ codec.output.value.payload
         = SubSeq(codec.input.data, 17, Len(codec.input.data))

\* the fragment of the test: message 123 | 1 << 15, fragment 2 of 4, size
\* 512, checksum 12345678, and a payload that is no deflate stream
C32_Witness ==
  /\ InflateFails
  /\ codec.input.whole
  /\ codec.input.from.compressed
  /\ codec.output.value =
       A2SFragment(32891, 4, 2, 1200, 512, 305419896,
                   <<105, 110, 118, 97, 108, 105, 100>>)

\* multi-datagram packets that end inside the fragment header: 5 bytes
\* after FE FF FF FF, and 12 with bit 15 of the message id set
TruncatedFragments == {TruncatedFragment, TruncatedCompressed}

\* the pending request of call q has failed with the error, and nothing was
\* thrown out of the event callback
Surfaced(q, error) ==
  /\ query'[q].status = "failed"
  /\ query'[q].error = error
  /\ thrown' = "none"

\* C33: a multi-datagram packet whose fragment header is cut short makes
\* the pending request fail with BufferExhausted: the caller of the query
\* gets the error, and nothing is raised outside the request.
C33_TruncatedFragmentSurfaced ==
  [][\A packet \in TruncatedFragments :
       (IsPending(1) /\ Message(packet)) => Surfaced(1, "BufferExhausted")]_vars

\* what the code does with such a packet: the error leaves the 'message'
\* callback, the request stays pending with its listeners and its timer
ThrownOutOfCallback ==
  [][\A packet \in TruncatedFragments :
       (IsPending(1) /\ Message(packet)) =>
         /\ thrown' = "BufferExhausted"
         /\ query' = query
         /\ dataListeners' = dataListeners
         /\ errorListeners' = errorListeners]_vars

\* how many of the listeners registered belong to the request of call q
registered(listeners, q) ==
  Cardinality({i \in DOMAIN listeners : listeners[i] = q})

\* the promise of the request of call q has been resolved or rejected
IsSettled(q) == query[q].leg.outcome.state \in {"resolved", "rejected"}

\* C34: with one request at a time on the Transport, a pending request has
\* exactly one 'data' and one 'error' listener registered, and a request
\* that has settled (by a response, an error, a send failure or its
\* timeout) has left no 'data' and no 'error' listener behind.
C34_ListenersOfRequest ==
  /\ \A q \in Queries :
       IsPending(q) =>
         /\ registered(dataListeners, q) = 1
         /\ registered(errorListeners, q) = 1
  /\ \A q \in Queries :
       IsSettled(q) =>
         /\ registered(dataListeners, q) = 0
         /\ registered(errorListeners, q) = 0
  /\ (\A q \in Queries : ~IsPending(q)) =>
       dataListeners = <<>> /\ errorListeners = <<>>

\* the second call on the client is pending with its two listeners after
\* the request of the first one was rejected and cleaned up
C34_Witness ==
  /\ query[1].leg.outcome = [Pending EXCEPT !.state = "rejected"]
  /\ query[1].leg.finished
  /\ IsPending(2)
  /\ dataListeners = <<2>>
  /\ errorListeners = <<2>>

\* C35: a message assembled while the request of call q is pending is put
\* together from fragments of the response to q only, which all arrived
\* after the request was made, and as many of them as their fragmentCount
\* says; fragments received for an earlier request that timed out are not
\* among them.
C35_StaleFragmentsUnused ==
  [][\A q \in Queries :
       (IsPending(q) /\ assembled' # NoAssembly) =>
         /\ \A i \in DOMAIN assembled'.from : assembled'.from[i].messageId = q
         /\ Len(assembled'.from) = assembled'.from[1].fragmentCount]_vars

\* what holds instead: a request made while the buffer is empty gets its
\* message from its own fragments
OwnFragmentsWhenEmpty ==
  [][\A q \in Queries :
       (IsPending(q) /\ assembled' # NoAssembly
        /\ \A i \in DOMAIN assembled'.from : assembled'.from[i].messageId = q)
       => Len(assembled'.from) = assembled'.from[1].fragmentCount]_vars

\* C36: a response resolves only the request it answers: when the response
\* to call p arrives while the request of another call q is pending (the
\* request of p having timed out), the request of q stays pending.
C36_OnlyTheSolicitedResponse ==
  [][\A p \in Queries, q \in Queries :
       (p # q /\ IsPending(q) /\ Answer(p)) =>
         /\ query'[q].status = "awaiting"
         /\ query'[q].leg.outcome.state = "pending"]_vars

\* what the code does: whichever datagram arrives resolves the pending
\* request, and the call returns the rules of the response to another call
GetsResponseToAnother ==
  [][\A p \in Queries, q \in Queries :
       (p # q /\ IsPending(q) /\ Answer(p)) =>
         /\ query'[q].leg.outcome = Resolved(answerTo(p))
         /\ query'[q].status = "done"
         /\ query'[q].result # deserializeResponse(
                                  "rules",
                                  ByteReader(SubSeq(answerTo(q), 2, 7), TRUE,
                                             DEFAULT_ENCODING), 69).value]_vars

\* C37: whatever the server sends or does not send, a call ends, the timers
\* firing as they are due: no more than DEFAULT_RETRIES + 1 legs are made,
\* a pending leg leads to a settled one (a leg is followed by the next one
\* in the step that settles it, so no leg stays pending), and the call
\* returns a result or fails.
C37_CallTerminates ==
  /\ [](query[1].legs <= DEFAULT_RETRIES + 1)
  /\ IsPending(1) ~> IsSettled(1)
  /\ (query[1].status = "awaiting") ~> (query[1].status \in {"done", "failed"})

\* the server answered five legs with a challenge and the sixth with
\* nothing: the call has failed on the timeout of its last leg
C37_Witness ==
  /\ query[1].status = "failed"
  /\ query[1].error = "Timeout"
  /\ query[1].legs = DEFAULT_RETRIES + 1
  /\ query[1].chal = DEFAULT_RETRIES
  /\ ~query[1].leg.timer

\* C38: once the client is closed it hands no request datagram to the
\* socket and starts no request leg, whatever arrives and whatever was
\* waiting to be sent; a call that was in flight when the client was closed
\* does not succeed any more, and it fails (on the timeout of its request).
C38_ClosedClientSilent ==
  /\ [][clientClosed =>
         /\ query'[1].tx <= query[1].tx
         /\ query'[1].legs <= query[1].legs
         /\ query[1].status = "awaiting" =>
              query'[1].status \in {"awaiting", "failed"}]_vars
  /\ (clientClosed /\ query[1].status = "awaiting")
       ~> (query[1].status = "failed")

\* a call whose first leg was answered with a challenge was closed with
\* its second leg pending, and has failed without a third transmission
C38_Witness ==
  /\ clientClosed
  /\ query[1].status = "failed"
  /\ query[1].error = "Timeout"
  /\ query[1].legs = 2
  /\ query[1].tx = 2
  /\ query[1].chal = 1
  /\ socketCloses = 1

=============================================================================
